---- MODULE Spec2Model ----
(***************************************************************************)
(* State-machine model of the Twitch chat bot: BotState (models/botState), *)
(* the chat message handler of the main program, CommandHandler,           *)
(* EventHandler (gift buffer, subscription / cheer / raid events) and      *)
(* AutoMessageHandler (idle emitter).                                      *)
(*                                                                         *)
(* The program runs on one event loop.  A handler runs without             *)
(* interruption up to an await of a real external operation (generation    *)
(* gateway, HTTP call, file write); there it is suspended and recorded in  *)
(* `tasks` until the operation resolves or fails.  Each action below is    *)
(* one such uninterrupted segment.                                         *)
(***************************************************************************)
EXTENDS Integers, Sequences, FiniteSets, TLC

VARIABLES
  messageHistory,       \* BotState.messageHistory: sequence of lines, oldest first
  SETTINGS,             \* config/settings SETTINGS object (the keys the model reads)
  botPaused,            \* BotState.botPaused
  quotaUsage,           \* BotState.quotaUsage
  userResponseCounts,   \* BotState.userResponseCounts (absent key = 0)
  lastBotMentionTime,   \* BotState.lastBotMentionTime, in 30-second units
  now,                  \* the clock (Date.now()), in 30-second units
  subgiftBuffer,        \* EventHandler.subgiftBuffer: sequence of gifter names
  tasks,                \* suspended handlers, each waiting at one await
  uncaught,             \* TRUE once a handler's promise was rejected with nobody catching it
  giftsAccepted,        \* number of gift events pushed into subgiftBuffer so far
  giftsAcked,           \* number of gifts covered by an acknowledgment sent to chat
  lastIdleStart,        \* <<clock value>> of the last idle-emitter gateway call, <<>> before the first
  currentMessageIndex,  \* ScheduledMessageHandler.currentMessageIndex (0-based)
  lastScheduledMessageTime, \* BotState.lastScheduledMessageTime: <<clock value>>; <<>> is the
                        \* constructor's 0, a time longer ago than any timer setting
  lastScheduledPost,    \* <<clock value>> of the last scheduled message sent to chat, <<>> before the first
  lastFireIndex,        \* history: <<cursor>> the last scheduled fire read its entry from, <<>> before the first
  systemPrompt,         \* BotState.systemPrompt: the sequence of the parts the string is
                        \* concatenated from
  waifus,               \* BotState.waifus: the array of names, in insertion order
  imagesCompleted,      \* history: image commands that ran to their end (picture stored,
                        \* link posted) since the last resetQuota
  intervals,            \* the setInterval timers that are running
  exited,               \* TRUE once process.exit was called
  ev                    \* what the last step did: handler, chat messages sent, gateway calls started

vars == <<messageHistory, SETTINGS, botPaused, quotaUsage, userResponseCounts,
          lastBotMentionTime, now, subgiftBuffer, tasks, uncaught,
          giftsAccepted, giftsAcked, lastIdleStart, currentMessageIndex,
          lastScheduledMessageTime, lastScheduledPost, lastFireIndex, systemPrompt, waifus,
          imagesCompleted, intervals, exited, ev>>

lifeVars == <<intervals, exited>>
scheduleVars == <<currentMessageIndex, lastScheduledMessageTime, lastScheduledPost,
                  lastFireIndex>>
promptVars == <<systemPrompt, waifus>>

----------------------------------------------------------------------------
(* Bounds of the model *)

MaxCap == 3          \* history capacities 1..MaxCap are explored
MaxTasks == 2        \* at most this many handlers are suspended at once
MaxTime == 6         \* the clock stops advancing here
MaxGifts == 4        \* at most this many gift events are accepted in one run
QuotaLimit == 2      \* the quotaLimit setting
IdleThreshold == 2   \* the inactivityThreshold setting at start-up, in 30-second units
ScheduleTimer == 2   \* the scheduledMessageTimer setting, in 30-second units
MaxImages == 3       \* at most this many image commands run to their end between two resets

(* Program constants *)

ContextMax == 50     \* handleContextLength: newLength > 50 is rejected
ResponseCap == 5     \* canRespondToUser: count < 5
GroupMin == 3        \* processSubgiftBuffer: fewer than 3 gifts are acknowledged one by one
MinArg == 1          \* handleTimerSetting / handleContextLength: an argument < 1 is rejected

Users == {"alice", "bob"}
Moderators == {"bob"}
Bot == "bot"                 \* getSetting('username')
NoUser == "-"

\* the scheduledMessages setting: the type of each descriptor of the rotation
ScheduledMessages == <<"static", "ai", "ai">>

----------------------------------------------------------------------------
(* Lines of the chat history.  A line is `${author}: ${text}`; the text is   *)
(* kept as the kind of message it is.                                        *)

Line(author, text) == [author |-> author, text |-> text]

\* botState.addMessage(`${getSetting('username')}: ${text}`)
BotLine(text) == Line(Bot, text)

\* lastMessage.toLowerCase().startsWith(`${botUsername}:`)
IsBotLine(line) == line.author = Bot

Last(s) == s[Len(s)]

----------------------------------------------------------------------------
(* BotState: rolling context store *)

\* an append that turns the new line away when the history is full
AddMessageKeepsOldest(hist, line, maxLength) ==
  IF Len(hist) >= maxLength THEN hist ELSE Append(hist, line)

\* BotState.addMessage: push, then one shift when the length exceeds the setting
AddMessage(hist, line, maxLength) ==
  LET h == Append(hist, line)
  IN  IF Len(h) > maxLength THEN Tail(h) ELSE h

\* a trim that shifts once
TrimHistoryOnce(hist, length) == IF Len(hist) > length THEN Tail(hist) ELSE hist

\* BotState.setMaxHistoryLength, the trimming loop: shift while longer than length
RECURSIVE TrimHistory(_, _)
TrimHistory(hist, length) ==
  IF Len(hist) > length THEN TrimHistory(Tail(hist), length) ELSE hist

\* a privilege test that accepts any sender carrying a badges object
HasElevatedPrivilegesAnyBadge(u) == u \in Users \/ u = "jugglewithtim"

\* hasElevatedPrivileges(tags): broadcaster badge, moderator badge or the owner name
HasElevatedPrivileges(u) == u \in Moderators \/ u = "jugglewithtim"

\* parseNumber's null (parseInt gave NaN) is modelled as -1
ArgNull == -1

\* extractCommandArgs(message, command), the text after the command, by what parseInt
\* sees in it: `lead`, the decimal integer the text starts with (ArgNull: it starts
\* with none, as "" and "abc"), and `trailing`, whether more text follows that
\* integer (as in "2.5" and "3x")
RawArg(lead, trailing) == [lead |-> lead, trailing |-> trailing]

NoArg == RawArg(ArgNull, FALSE)

\* parseNumber(str): parseInt(str, 10) reads the leading integer and ignores what
\* follows it; NaN becomes null
ParseNumber(raw) == raw.lead

CommandArgs == {RawArg(n, FALSE) : n \in {ArgNull, 0, ContextMax + 1} \cup (1..MaxCap)}

----------------------------------------------------------------------------
(* What a step did *)

\* op: the handler segment; said: twitchClient.say calls; gen: generation-gateway calls
\* started; outcome: how the awaited operation ended; text: the text sent to chat;
\* arg: the argument text of a numeric command
Ev(op, user, said, gen, outcome, text) ==
  [op |-> op, user |-> user, said |-> said, gen |-> gen, outcome |-> outcome, text |-> text,
   arg |-> NoArg]

EvArg(op, user, said, gen, outcome, text, raw) ==
  [Ev(op, user, said, gen, outcome, text) EXCEPT !.arg = raw]

NoEv == Ev("init", NoUser, 0, 0, "-", "-")

\* A suspended handler: which handler, at which await, and the locals it keeps
\* (final: the prompt carries the final-response framing; covers / names: the gifts and
\* gifters an acknowledgment is for; usage0: quotaUsage when the command arrived;
\* alsoMention: the cheer message also names the bot; index: the rotation cursor the
\* scheduled fire read)
Task(kind, stage, user) ==
  [kind |-> kind, stage |-> stage, user |-> user, final |-> FALSE,
   covers |-> 0, names |-> {}, usage0 |-> 0, alsoMention |-> FALSE, index |-> 0]

\* the sequence s without its i-th element
RemoveAt(s, i) == SubSeq(s, 1, i - 1) \o SubSeq(s, i + 1, Len(s))

\* one part of the system prompt string: CORE_SYSTEM_PROMPT(username, channel), the
\* "Additional Instructions:" block with its text ("default": DEFAULT_ADDITIONAL_PROMPT,
\* "custom": the argument of !aisysprompt), or the sentence "You are the waifu of
\* these people: ..." with the names it joins
PromptPart(part, text, names) == [part |-> part, text |-> text, names |-> names]
CorePrompt == PromptPart("core", "-", <<>>)
AdditionalInstructions(text) == PromptPart("additional", text, <<>>)
WaifuClause(names) == PromptPart("waifu", "-", names)

\* BotState.addWaifuSystemPrompt: appends the sentence to the prompt it is given
AddWaifuSystemPrompt(prompt, list) ==
  IF Len(list) > 0 THEN Append(prompt, WaifuClause(list)) ELSE prompt

\* BotState.updateSystemPrompt: builds the whole string anew
UpdateSystemPrompt(list) ==
  LET fullPrompt == <<CorePrompt, AdditionalInstructions("default")>>
  IN  IF Len(list) > 0 THEN Append(fullPrompt, WaifuClause(list)) ELSE fullPrompt

SetSystemPromptClauseTwice(prompt, list) ==
  AddWaifuSystemPrompt(
    AddWaifuSystemPrompt(<<CorePrompt, AdditionalInstructions(prompt)>>, list), list)

\* BotState.setSystemPrompt
SetSystemPrompt(prompt, list) ==
  AddWaifuSystemPrompt(<<CorePrompt, AdditionalInstructions(prompt)>>, list)

\* BotState.resetSystemPrompt
ResetSystemPrompt(list) == SetSystemPrompt("default", list)

\* Array.prototype.includes / indexOf (0 when absent, 1-based otherwise)
Includes(list, u) == \E i \in 1..Len(list) : list[i] = u
IndexOf(list, u) ==
  IF Includes(list, u) THEN CHOOSE i \in 1..Len(list) :
                                 list[i] = u /\ \A j \in 1..(i - 1) : list[j] # u
  ELSE 0

AddWaifuAlways(list, u) == Append(list, u)

\* BotState.addWaifu: the list after the call
AddWaifu(list, u) == IF ~Includes(list, u) THEN Append(list, u) ELSE list

\* BotState.removeWaifu: the list after the call
RemoveWaifu(list, u) ==
  LET index == IndexOf(list, u)
  IN  IF index # 0 THEN RemoveAt(list, index) ELSE list

\* the owner name hasElevatedPrivileges and handleQuotaReset compare with
Owner == "jugglewithtim"

\* saveSettings(): the file write succeeds or fails
SaveOutcomes == {"ok", "fail"}

----------------------------------------------------------------------------
(* Initial state: after loadSettings, new BotState() and the handlers'      *)
(* constructors.                                                             *)

InitSettings(cap, threshold) ==
  [maxHistoryLength |-> cap,
   inactivityThreshold |-> threshold,
   enableAutoMessages |-> TRUE,
   enableImageGeneration |-> TRUE,
   enableHugCommand |-> TRUE,
   enableBitsAlerts |-> TRUE,
   enableRaidsAlerts |-> TRUE,
   quotaLimit |-> QuotaLimit,
   enableScheduledMessages |-> TRUE,
   scheduledMessages |-> ScheduledMessages,
   scheduledMessageTimer |-> ScheduleTimer,
   enableShoutoutCommand |-> TRUE,
   enableWaifuCommand |-> TRUE,
   waifus |-> <<>>]

\* the interval timers initializeBot leaves running: EventHandler and
\* ScheduledMessageHandler start theirs in the constructor, BotState.initializeState
\* starts the quota reset and the response-count reset
StartedIntervals == {"subgift", "scheduled", "quotaReset", "userResponseReset"}

InitCommon ==
  /\ messageHistory = <<>>
  /\ botPaused = FALSE
  /\ userResponseCounts = [u \in Users |-> 0]
  /\ now = 0
  /\ lastBotMentionTime = 0
  /\ subgiftBuffer = <<>>
  /\ tasks = <<>>
  /\ uncaught = FALSE
  /\ giftsAccepted = 0
  /\ giftsAcked = 0
  /\ lastIdleStart = <<>>
  /\ currentMessageIndex = 0
  /\ lastFireIndex = <<>>
  /\ lastScheduledMessageTime = <<>>
  /\ lastScheduledPost = <<>>
  /\ waifus = <<>>
  /\ systemPrompt = UpdateSystemPrompt(<<>>)
  /\ imagesCompleted = 0
  /\ intervals = StartedIntervals
  /\ exited = FALSE
  /\ ev = NoEv

----------------------------------------------------------------------------
(* BotState: per-user response ledger *)

\* BotState.getUserResponseCount
GetUserResponseCount(counts, u) == counts[u]

CanRespondToUserUpToCap(counts, u) == GetUserResponseCount(counts, u) <= ResponseCap

\* BotState.canRespondToUser
CanRespondToUser(counts, u) == GetUserResponseCount(counts, u) < ResponseCap

\* BotState.isLimitResponse
IsLimitResponse(counts, u) == GetUserResponseCount(counts, u) = ResponseCap - 1

IncrementUserResponseCountTwice(counts, u) == [counts EXCEPT ![u] = counts[u] + 2]

\* BotState.incrementUserResponseCount
IncrementUserResponseCount(counts, u) == [counts EXCEPT ![u] = counts[u] + 1]

\* The message handler after handleCommand returned false: the pause check, then the
\* mention branch up to its await when the message names the bot (`named`).  `op`
\* names the command that declined the message.
PassThrough(u, named, op) ==
  IF named /\ ~botPaused /\ CanRespondToUser(userResponseCounts, u)
  THEN /\ Len(tasks) < MaxTasks
       /\ lastBotMentionTime' = now
       /\ tasks' = Append(tasks, [Task("mention", "gateway", u) EXCEPT
                                     !.final = IsLimitResponse(userResponseCounts, u)])
       /\ ev' = Ev(op \o "-named", u, 0, 1, "-", "-")
  ELSE /\ ev' = Ev(IF named THEN op \o "-named" ELSE op, u, 0, 0, "-", "-")
       /\ UNCHANGED <<lastBotMentionTime, tasks>>

CommandHandledThenMention(named) ==
  lastBotMentionTime' = IF named /\ ~botPaused THEN now ELSE lastBotMentionTime

\* the message handler after handleCommand returned true: `if (commandHandled) return`,
\* whether or not the message names the bot
CommandHandled(named) == UNCHANGED lastBotMentionTime

\* the record of a step in which a handler consumed a message that names the bot
EvNamed(e, named) == IF named THEN e @@ [named |-> TRUE] ELSE e

----------------------------------------------------------------------------
(* Chat message handler, plain message: the line is recorded, no command     *)
(* matches, the bot's name is not in the message.                            *)

PlainMessage(u) ==
  /\ ~uncaught /\ ~exited /\ UNCHANGED lifeVars /\ UNCHANGED imagesCompleted
  /\ UNCHANGED <<scheduleVars, promptVars>>
  /\ messageHistory' = AddMessage(messageHistory, Line(u, "msg"), SETTINGS.maxHistoryLength)
  /\ ev' = Ev("plain", u, 0, 0, "-", "-")
  /\ UNCHANGED <<SETTINGS, botPaused, quotaUsage, userResponseCounts, lastBotMentionTime,
                 now, subgiftBuffer, tasks, uncaught, giftsAccepted, giftsAcked, lastIdleStart>>

(* Chat message handler, "!aicontext <arg>": CommandHandler.handleContextLength. *)
(* setMaxHistoryLength starts saveSettings() without awaiting it; when that     *)
(* write fails the rejection is caught by nobody.                               *)

ContextCommand(u, raw, save, named) ==
  LET h0 == AddMessage(messageHistory, Line(u, "msg"), SETTINGS.maxHistoryLength)
      arg == ParseNumber(raw)
  IN
  IF ~HasElevatedPrivileges(u)
  THEN \* handler returns false; the message goes on to the mention dispatch
       /\ save = "ok"
       /\ messageHistory' = h0
       /\ PassThrough(u, named, "context-denied")
       /\ UNCHANGED <<SETTINGS, uncaught>>
  ELSE IF arg = ArgNull \/ arg < 1 \/ arg > ContextMax
  THEN /\ save = "ok"
       /\ messageHistory' = AddMessage(h0, BotLine("invalid"), SETTINGS.maxHistoryLength)
       /\ ev' = EvNamed(EvArg("context-invalid", u, 1, 0, "-", "invalid", raw), named)
       /\ CommandHandled(named)
       /\ UNCHANGED <<SETTINGS, uncaught, tasks>>
  ELSE /\ SETTINGS' = [SETTINGS EXCEPT !.maxHistoryLength = arg]
       /\ messageHistory' = AddMessage(TrimHistory(h0, arg), BotLine("notice"), arg)
       /\ uncaught' = (save = "fail")
       /\ ev' = EvNamed(EvArg("context-set", u, 1, 0, save, "notice", raw), named)
       /\ CommandHandled(named)
       /\ UNCHANGED tasks

ContextCommandStep(u, raw, save, named) ==
  /\ ~uncaught /\ ~exited /\ UNCHANGED lifeVars /\ UNCHANGED imagesCompleted
  /\ UNCHANGED <<scheduleVars, promptVars>>
  /\ ContextCommand(u, raw, save, named)
  /\ UNCHANGED <<botPaused, quotaUsage, userResponseCounts,
                 now, subgiftBuffer, giftsAccepted, giftsAcked, lastIdleStart>>

(* Web interface, POST /: every editable field is overwritten from the form; *)
(* maxHistoryLength becomes Number(req.body.maxHistoryLength).  The history   *)
(* held by BotState is not touched.                                          *)

WebPostSettings(n, save) ==
  /\ ~uncaught /\ ~exited /\ UNCHANGED lifeVars /\ UNCHANGED imagesCompleted
  /\ UNCHANGED <<scheduleVars, promptVars>>
  /\ SETTINGS' = [SETTINGS EXCEPT !.maxHistoryLength = n]
  /\ uncaught' = (save = "fail")
  /\ ev' = Ev("web-post", NoUser, 0, 0, save, "-")
  /\ UNCHANGED <<messageHistory, botPaused, quotaUsage, userResponseCounts, lastBotMentionTime,
                 now, subgiftBuffer, tasks, giftsAccepted, giftsAcked, lastIdleStart>>

----------------------------------------------------------------------------
(* Rolling context store under chat lines, !aicontext and the settings page *)

InitHistory ==
  /\ InitCommon
  /\ quotaUsage = 0
  /\ \E cap \in 1..MaxCap : SETTINGS = InitSettings(cap, IdleThreshold)

NextHistory ==
  \/ \E u \in Users : PlainMessage(u)
  \/ \E u \in Users, arg \in CommandArgs, s \in SaveOutcomes : ContextCommandStep(u, arg, s, FALSE)
  \/ \E n \in 1..MaxCap, s \in SaveOutcomes : WebPostSettings(n, s)

SpecHistory == InitHistory /\ [][NextHistory]_vars

\* C1: the history never holds more lines than the maxHistoryLength setting
HistoryWithinCapacity == Len(messageHistory) <= SETTINGS.maxHistoryLength

----------------------------------------------------------------------------
(* Ledger reset *)

\* BotState.resetUserResponseCounts, run by the 5-minute interval timer
ResetUserResponseCounts ==
  /\ ~uncaught /\ ~exited /\ UNCHANGED lifeVars /\ UNCHANGED imagesCompleted
  /\ UNCHANGED <<scheduleVars, promptVars>>
  /\ userResponseCounts' = [u \in Users |-> 0]
  /\ ev' = Ev("ledger-reset", NoUser, 0, 0, "-", "-")
  /\ UNCHANGED <<messageHistory, SETTINGS, botPaused, quotaUsage, lastBotMentionTime,
                 now, subgiftBuffer, tasks, uncaught, giftsAccepted, giftsAcked, lastIdleStart>>

----------------------------------------------------------------------------
(* Chat message handler, message that names the bot (no command, no cheer) *)

\* how an awaited generation-gateway call ends: a text, a text that is empty after
\* the <think> blocks are stripped, or a rejection
GatewayOutcomes == {"text", "empty", "fail"}

\* the text sent for a mention: the cleaned response, or the configured
\* fallbackMessage when it is empty (try branch) or the call failed (catch branch)
MentionReplyTextNoEmptyCheck(outcome) ==
  IF outcome = "text" THEN "reply" ELSE IF outcome = "empty" THEN "" ELSE "fallback"

MentionReplyText(outcome) == IF outcome = "text" THEN "reply" ELSE "fallback"

\* up to `await aiService.getChatResponse(...)`
\* a dispatch that stamps lastBotMentionTime before it consults the ledger
MentionStampedBeforeLedger(u) ==
  /\ ~uncaught /\ ~exited /\ UNCHANGED lifeVars /\ UNCHANGED imagesCompleted
  /\ UNCHANGED <<scheduleVars, promptVars>>
  /\ Len(tasks) < MaxTasks
  /\ messageHistory' = AddMessage(messageHistory, Line(u, "msg"), SETTINGS.maxHistoryLength)
  /\ IF botPaused
     THEN /\ ev' = Ev("mention-paused", u, 0, 0, "-", "-")
          /\ UNCHANGED <<lastBotMentionTime, tasks>>
     ELSE IF ~CanRespondToUser(userResponseCounts, u)
     THEN /\ lastBotMentionTime' = now
          /\ ev' = Ev("mention-dropped", u, 0, 0, "-", "-")
          /\ UNCHANGED tasks
     ELSE /\ lastBotMentionTime' = now
          /\ tasks' = Append(tasks, [Task("mention", "gateway", u) EXCEPT
                                          !.final = IsLimitResponse(userResponseCounts, u)])
          /\ ev' = Ev("mention-start", u, 0, 1, "-", "-")
  /\ UNCHANGED <<SETTINGS, botPaused, quotaUsage, userResponseCounts, now, subgiftBuffer,
                 uncaught, giftsAccepted, giftsAcked, lastIdleStart>>

Mention(u) ==
  /\ ~uncaught /\ ~exited /\ UNCHANGED lifeVars /\ UNCHANGED imagesCompleted
  /\ UNCHANGED <<scheduleVars, promptVars>>
  /\ Len(tasks) < MaxTasks
  /\ messageHistory' = AddMessage(messageHistory, Line(u, "msg"), SETTINGS.maxHistoryLength)
  /\ IF botPaused
     THEN /\ ev' = Ev("mention-paused", u, 0, 0, "-", "-")
          /\ UNCHANGED <<lastBotMentionTime, tasks>>
     ELSE IF ~CanRespondToUser(userResponseCounts, u)
     THEN /\ ev' = Ev("mention-dropped", u, 0, 0, "-", "-")
          /\ UNCHANGED <<lastBotMentionTime, tasks>>
     ELSE /\ lastBotMentionTime' = now
          /\ tasks' = Append(tasks, [Task("mention", "gateway", u) EXCEPT
                                          !.final = IsLimitResponse(userResponseCounts, u)])
          /\ ev' = Ev("mention-start", u, 0, 1, "-", "-")
  /\ UNCHANGED <<SETTINGS, botPaused, quotaUsage, userResponseCounts, now, subgiftBuffer,
                 uncaught, giftsAccepted, giftsAcked, lastIdleStart>>

\* a resolution that drops the reply when the bot was paused in the meantime
ResolveMentionUnlessPaused(i, outcome) ==
  /\ ~uncaught /\ ~exited /\ UNCHANGED lifeVars /\ UNCHANGED imagesCompleted
  /\ UNCHANGED <<scheduleVars, promptVars>>
  /\ i \in 1..Len(tasks)
  /\ tasks[i].kind = "mention"
  /\ LET u == tasks[i].user
         text == MentionReplyText(outcome)
     IN  IF botPaused
         THEN /\ ev' = Ev("mention-reply", u, 0, 0, outcome, "-")
              /\ UNCHANGED <<messageHistory, userResponseCounts>>
         ELSE /\ messageHistory' = AddMessage(messageHistory, BotLine(text),
                                              SETTINGS.maxHistoryLength)
              /\ userResponseCounts' = IncrementUserResponseCount(userResponseCounts, u)
              /\ ev' = Ev("mention-reply", u, 1, 0, outcome, text)
  /\ tasks' = RemoveAt(tasks, i)
  /\ UNCHANGED <<SETTINGS, botPaused, quotaUsage, lastBotMentionTime, now, subgiftBuffer,
                 uncaught, giftsAccepted, giftsAcked, lastIdleStart>>

\* after the await: the try branch (text, or fallback when empty) or the catch branch
ResolveMention(i, outcome) ==
  /\ ~uncaught /\ ~exited /\ UNCHANGED lifeVars /\ UNCHANGED imagesCompleted
  /\ UNCHANGED <<scheduleVars, promptVars>>
  /\ i \in 1..Len(tasks)
  /\ tasks[i].kind = "mention"
  /\ LET u == tasks[i].user
         text == MentionReplyText(outcome)
     IN  /\ messageHistory' = AddMessage(messageHistory, BotLine(text), SETTINGS.maxHistoryLength)
         /\ userResponseCounts' = IncrementUserResponseCount(userResponseCounts, u)
         /\ ev' = Ev("mention-reply", u, 1, 0, outcome, text)
  /\ tasks' = RemoveAt(tasks, i)
  /\ UNCHANGED <<SETTINGS, botPaused, quotaUsage, lastBotMentionTime, now, subgiftBuffer,
                 uncaught, giftsAccepted, giftsAcked, lastIdleStart>>

----------------------------------------------------------------------------
(* Mention dispatch and the response ledger *)

InitLedger ==
  /\ InitCommon
  /\ quotaUsage = 0
  /\ \E cap \in 1..MaxCap : SETTINGS = InitSettings(cap, IdleThreshold)

NextLedger ==
  \/ \E u \in Users : PlainMessage(u)
  \/ \E u \in Users : Mention(u)
  \/ \E i \in 1..MaxTasks, o \in GatewayOutcomes : ResolveMention(i, o)
  \/ ResetUserResponseCounts

SpecLedger == InitLedger /\ [][NextLedger]_vars

\* C3: every user's response count stays within 0..5
ResponseCountsWithinCap ==
  \A u \in Users : userResponseCounts[u] >= 0 /\ userResponseCounts[u] <= ResponseCap

(* The ledger alone: mentions, their replies and the reset, over a one-line history *)

\* the step posts the reply of a mention task of user u that was framed as the limit response
PostsLimitResponse(u) ==
  \E i \in 1..Len(tasks) :
    /\ tasks[i].kind = "mention" /\ tasks[i].user = u /\ tasks[i].final
    /\ tasks' = RemoveAt(tasks, i)

\* C32: a reply to a user is the fifth at most of the replies posted to that user since
\* the last ledger reset, and when the reply framed as the limit response is posted
\* no other mention of that user is still waiting for its reply (later mentions are
\* dropped at the gate), so no reply follows the limit response
LimitResponseIsLast ==
  [][(ev'.op = "mention-reply" /\ ev'.said = 1)
        => /\ userResponseCounts'[ev'.user] <= ResponseCap
           /\ PostsLimitResponse(ev'.user)
                => /\ userResponseCounts'[ev'.user] = ResponseCap
                   /\ \A j \in 1..Len(tasks') :
                        ~(tasks'[j].kind = "mention" /\ tasks'[j].user = ev'.user)]_vars


InitLedgerGate ==
  /\ InitCommon
  /\ quotaUsage = 0
  /\ SETTINGS = InitSettings(1, IdleThreshold)

NextLedgerGate ==
  \/ \E u \in Users : Mention(u)
  \/ \E i \in 1..MaxTasks, o \in GatewayOutcomes : ResolveMention(i, o)
  \/ ResetUserResponseCounts

SpecLedgerGate == InitLedgerGate /\ [][NextLedgerGate]_vars

\* the ledger with no recorded count
FreshCounts == [u \in Users |-> 0]

\* n calls of incrementUserResponseCount(u) in a row
RECURSIVE IncrementTimes(_, _, _)
IncrementTimes(counts, u, n) ==
  IF n = 0 THEN counts ELSE IncrementTimes(IncrementUserResponseCount(counts, u), u, n - 1)

\* C20: canRespondToUser(u) is true for a user with no recorded count; after 5
\* increments for u with no reset in between it is false (from a fresh ledger and from
\* every ledger the bot reaches), and a mention is dropped only from such a user;
\* right after resetUserResponseCounts it is true for every user, whatever the
\* counts were
LedgerGateClosesAndReopens ==
  [][/\ \A u \in Users :
          /\ CanRespondToUser(FreshCounts, u)
          /\ userResponseCounts'[u] = 0 => CanRespondToUser(userResponseCounts', u)
          /\ ~CanRespondToUser(IncrementTimes(FreshCounts, u, ResponseCap), u)
          /\ ~CanRespondToUser(IncrementTimes(userResponseCounts', u, ResponseCap), u)
     /\ ev'.op = "mention-dropped" => userResponseCounts[ev'.user] >= ResponseCap
     /\ ev'.op = "mention-start" => userResponseCounts[ev'.user] < ResponseCap
     /\ ev'.op = "ledger-reset" =>
          \A u \in Users : CanRespondToUser(userResponseCounts', u)]_vars

\* a mention was dropped from a user who had received five replies since the last reset
MentionDroppedAtCap ==
  /\ ev.op = "mention-dropped"
  /\ userResponseCounts[ev.user] >= ResponseCap

\* C8: a mention that passes canRespondToUser starts one gateway call, and when that
\* call ends - with a text, an empty text or a failure - exactly one reply is sent (the
\* fallback unless a text came back), the reply is the newest line of the history and
\* the sender's count grows by exactly 1
MentionAlwaysAnswered ==
  [][/\ ev'.op = "mention-start" =>
          /\ ev'.gen = 1
          /\ Len(tasks') = Len(tasks) + 1
          /\ Last(tasks').user = ev'.user
     /\ ev'.op = "mention-reply" =>
          /\ ev'.said = 1
          /\ ev'.text = (IF ev'.outcome = "text" THEN "reply" ELSE "fallback")
          /\ messageHistory' # <<>>
          /\ Last(messageHistory') = BotLine(ev'.text)
          /\ userResponseCounts'[ev'.user] = userResponseCounts[ev'.user] + 1
          /\ \A v \in Users \ {ev'.user} : userResponseCounts'[v] = userResponseCounts[v]
          /\ Len(tasks') = Len(tasks) - 1]_vars

\* a failed gateway call has been answered with the fallback
MentionFailureAnswered ==
  /\ ev.op = "mention-reply"
  /\ ev.outcome = "fail"
  /\ ev.text = "fallback"
  /\ userResponseCounts[ev.user] >= 1

----------------------------------------------------------------------------
(* Chat message handler, bot control commands: handleBotPause / handleBotResume. *)
(* The command router runs before the pause check of the handler.               *)

PauseCommand(u) ==
  /\ ~uncaught /\ ~exited /\ UNCHANGED lifeVars /\ UNCHANGED imagesCompleted
  /\ UNCHANGED <<scheduleVars, promptVars>>
  /\ LET h0 == AddMessage(messageHistory, Line(u, "msg"), SETTINGS.maxHistoryLength)
     IN  IF HasElevatedPrivileges(u)
         THEN /\ botPaused' = TRUE
              /\ messageHistory' = AddMessage(h0, BotLine("notice"), SETTINGS.maxHistoryLength)
              /\ ev' = Ev("pause", u, 1, 0, "-", "notice")
         ELSE /\ messageHistory' = h0
              /\ ev' = Ev("pause-denied", u, 0, 0, "-", "-")
              /\ UNCHANGED botPaused
  /\ UNCHANGED <<SETTINGS, quotaUsage, userResponseCounts, lastBotMentionTime, now,
                 subgiftBuffer, tasks, uncaught, giftsAccepted, giftsAcked, lastIdleStart>>

\* a resume command behind the message handler's pause check
ResumeCommandAfterPauseCheck(u) ==
  /\ ~uncaught /\ ~exited /\ UNCHANGED lifeVars /\ UNCHANGED imagesCompleted
  /\ UNCHANGED <<scheduleVars, promptVars>>
  /\ LET h0 == AddMessage(messageHistory, Line(u, "msg"), SETTINGS.maxHistoryLength)
     IN  IF HasElevatedPrivileges(u) /\ ~botPaused
         THEN /\ botPaused' = FALSE
              /\ messageHistory' = AddMessage(h0, BotLine("notice"), SETTINGS.maxHistoryLength)
              /\ ev' = Ev("resume", u, 1, 0, "-", "notice")
         ELSE /\ messageHistory' = h0
              /\ ev' = Ev("resume-denied", u, 0, 0, "-", "-")
              /\ UNCHANGED botPaused
  /\ UNCHANGED <<SETTINGS, quotaUsage, userResponseCounts, lastBotMentionTime, now,
                 subgiftBuffer, tasks, uncaught, giftsAccepted, giftsAcked, lastIdleStart>>

ResumeCommand(u) ==
  /\ ~uncaught /\ ~exited /\ UNCHANGED lifeVars /\ UNCHANGED imagesCompleted
  /\ UNCHANGED <<scheduleVars, promptVars>>
  /\ LET h0 == AddMessage(messageHistory, Line(u, "msg"), SETTINGS.maxHistoryLength)
     IN  IF HasElevatedPrivileges(u)
         THEN /\ botPaused' = FALSE
              /\ messageHistory' = AddMessage(h0, BotLine("notice"), SETTINGS.maxHistoryLength)
              /\ ev' = Ev("resume", u, 1, 0, "-", "notice")
         ELSE /\ messageHistory' = h0
              /\ ev' = Ev("resume-denied", u, 0, 0, "-", "-")
              /\ UNCHANGED botPaused
  /\ UNCHANGED <<SETTINGS, quotaUsage, userResponseCounts, lastBotMentionTime, now,
                 subgiftBuffer, tasks, uncaught, giftsAccepted, giftsAcked, lastIdleStart>>

(* "!hug @name" (well-formed): CommandHandler.handleHugCommand.  `named`: the *)
(* name hugged is the bot's.  With enableHugCommand off the handler returns    *)
(* false and the message handler goes on to the mention dispatch.              *)

HugCommand(u, named) ==
  /\ ~uncaught /\ ~exited /\ UNCHANGED lifeVars /\ UNCHANGED imagesCompleted
  /\ UNCHANGED <<scheduleVars, promptVars>>
  /\ Len(tasks) < MaxTasks
  /\ messageHistory' = AddMessage(messageHistory, Line(u, "msg"), SETTINGS.maxHistoryLength)
  /\ IF SETTINGS.enableHugCommand
     THEN /\ tasks' = Append(tasks, Task("hug", "gateway", u))
          /\ ev' = EvNamed(Ev("hug-start", u, 0, 1, "-", "-"), named)
          /\ CommandHandled(named)
     ELSE PassThrough(u, named, "hug-disabled")
  /\ UNCHANGED <<SETTINGS, botPaused, quotaUsage, userResponseCounts, now,
                 subgiftBuffer, uncaught, giftsAccepted, giftsAcked, lastIdleStart>>

(* "!waifu", "!unwaifu", "!waifulist" (exact matches, so the message cannot name *)
(* the bot): CommandHandler.handleAddWaifu / handleRemoveWaifu / handleWaifuList; *)
(* addWaifu and removeWaifu leave saveSettings() un-awaited                      *)

WaifuKinds == {"add", "remove", "list"}

WaifuCommand(u, kind, save) ==
  /\ ~uncaught /\ ~exited /\ UNCHANGED lifeVars /\ UNCHANGED imagesCompleted
  /\ UNCHANGED scheduleVars
  /\ messageHistory' = AddMessage(messageHistory, Line(u, "msg"), SETTINGS.maxHistoryLength)
  /\ IF ~SETTINGS.enableWaifuCommand
     THEN /\ save = "ok"
          /\ PassThrough(u, FALSE, "waifu-disabled")
          /\ UNCHANGED <<promptVars, uncaught, SETTINGS>>
     ELSE /\ UNCHANGED <<lastBotMentionTime, tasks>>
          /\ IF kind = "add" /\ AddWaifu(waifus, u) # waifus
             THEN /\ waifus' = AddWaifu(waifus, u)
                  /\ SETTINGS' = [SETTINGS EXCEPT !.waifus = waifus']
                  /\ systemPrompt' = UpdateSystemPrompt(waifus')
                  /\ uncaught' = (save = "fail")
                  /\ ev' = Ev("waifu-add", u, 1, 0, save, "notice")
             ELSE IF kind = "remove" /\ RemoveWaifu(waifus, u) # waifus
             THEN /\ waifus' = RemoveWaifu(waifus, u)
                  /\ SETTINGS' = [SETTINGS EXCEPT !.waifus = waifus']
                  /\ systemPrompt' = UpdateSystemPrompt(waifus')
                  /\ uncaught' = (save = "fail")
                  /\ ev' = Ev("waifu-remove", u, 1, 0, save, "notice")
             ELSE /\ save = "ok"
                  /\ ev' = Ev("waifu-" \o kind \o "-same", u, 1, 0, "-", "notice")
                  /\ UNCHANGED <<promptVars, uncaught, SETTINGS>>
  /\ UNCHANGED <<botPaused, quotaUsage, userResponseCounts, now,
                 subgiftBuffer, giftsAccepted, giftsAcked, lastIdleStart>>

\* getChatResponse resolves with an object { response, memoryRetrieved }; the handler
\* calls .replace on it, a TypeError, so whatever the gateway did the catch branch
\* sends MESSAGES.HUG_SUCCESS and records no bot line
ResolveHug(i, outcome) ==
  /\ ~uncaught /\ ~exited /\ UNCHANGED lifeVars /\ UNCHANGED imagesCompleted
  /\ UNCHANGED <<scheduleVars, promptVars>>
  /\ i \in 1..Len(tasks)
  /\ tasks[i].kind = "hug"
  /\ tasks' = RemoveAt(tasks, i)
  /\ ev' = Ev("hug-reply", tasks[i].user, 1, 0, outcome, "template")
  /\ UNCHANGED <<messageHistory, SETTINGS, botPaused, quotaUsage, userResponseCounts,
                 lastBotMentionTime, now, subgiftBuffer, uncaught, giftsAccepted, giftsAcked,
                 lastIdleStart>>

(* "!aitimer <arg>": CommandHandler.handleTimerSetting *)

TicksPerMinute == 2    \* minutesToMs, in units of the 30-second tick

\* up to `await saveSettings()`
TimerCommand(u, raw, named) ==
  /\ ~uncaught /\ ~exited /\ UNCHANGED lifeVars /\ UNCHANGED imagesCompleted
  /\ UNCHANGED <<scheduleVars, promptVars>>
  /\ Len(tasks) < MaxTasks
  /\ LET h0 == AddMessage(messageHistory, Line(u, "msg"), SETTINGS.maxHistoryLength)
         arg == ParseNumber(raw)
     IN  IF ~HasElevatedPrivileges(u)
         THEN /\ messageHistory' = h0
              /\ PassThrough(u, named, "timer-denied")
              /\ UNCHANGED SETTINGS
         ELSE IF arg = ArgNull \/ arg < 1
         THEN /\ messageHistory' = AddMessage(h0, BotLine("invalid"), SETTINGS.maxHistoryLength)
              /\ ev' = EvNamed(EvArg("timer-invalid", u, 1, 0, "-", "invalid", raw), named)
              /\ CommandHandled(named)
              /\ UNCHANGED <<SETTINGS, tasks>>
         ELSE /\ messageHistory' = h0
              /\ SETTINGS' = [SETTINGS EXCEPT !.inactivityThreshold = arg * TicksPerMinute]
              /\ tasks' = Append(tasks, Task("timer", "save", u))
              /\ ev' = EvNamed(EvArg("timer-set", u, 0, 0, "-", "-", raw), named)
              /\ CommandHandled(named)
  /\ UNCHANGED <<botPaused, quotaUsage, userResponseCounts, now,
                 subgiftBuffer, uncaught, giftsAccepted, giftsAcked, lastIdleStart>>

\* after `await saveSettings()`: the confirmation, or the rejection leaves the handler
ResolveTimerSave(i, save) ==
  /\ ~uncaught /\ ~exited /\ UNCHANGED lifeVars /\ UNCHANGED imagesCompleted
  /\ UNCHANGED <<scheduleVars, promptVars>>
  /\ i \in 1..Len(tasks)
  /\ tasks[i].kind = "timer"
  /\ tasks' = RemoveAt(tasks, i)
  /\ IF save = "ok"
     THEN /\ messageHistory' = AddMessage(messageHistory, BotLine("notice"),
                                          SETTINGS.maxHistoryLength)
          /\ ev' = Ev("timer-confirm", tasks[i].user, 1, 0, save, "notice")
          /\ UNCHANGED uncaught
     ELSE /\ uncaught' = TRUE
          /\ ev' = Ev("timer-crashed", tasks[i].user, 0, 0, save, "-")
          /\ UNCHANGED messageHistory
  /\ UNCHANGED <<SETTINGS, botPaused, quotaUsage, userResponseCounts, lastBotMentionTime, now,
                 subgiftBuffer, giftsAccepted, giftsAcked, lastIdleStart>>

(* "!aiauto" (an exact match, so the message cannot name the bot):             *)
(* CommandHandler.handleAutoMessagesToggle                                    *)

\* a handler that switches the auto-messages off whatever they were
AutoCommandSwitchesOff(u) ==
  /\ ~uncaught /\ ~exited /\ UNCHANGED lifeVars /\ UNCHANGED imagesCompleted
  /\ UNCHANGED <<scheduleVars, promptVars>>
  /\ Len(tasks) < MaxTasks
  /\ messageHistory' = AddMessage(messageHistory, Line(u, "msg"), SETTINGS.maxHistoryLength)
  /\ IF ~HasElevatedPrivileges(u)
     THEN /\ PassThrough(u, FALSE, "auto-denied")
          /\ UNCHANGED SETTINGS
     ELSE /\ SETTINGS' = [SETTINGS EXCEPT !.enableAutoMessages = FALSE]
          /\ tasks' = Append(tasks, Task("auto", "save", u))
          /\ ev' = Ev("auto-set", u, 0, 0, "-", "-")
          /\ UNCHANGED lastBotMentionTime
  /\ UNCHANGED <<botPaused, quotaUsage, userResponseCounts, now,
                 subgiftBuffer, uncaught, giftsAccepted, giftsAcked, lastIdleStart>>

\* up to `await saveSettings()`
AutoCommand(u) ==
  /\ ~uncaught /\ ~exited /\ UNCHANGED lifeVars /\ UNCHANGED imagesCompleted
  /\ UNCHANGED <<scheduleVars, promptVars>>
  /\ Len(tasks) < MaxTasks
  /\ messageHistory' = AddMessage(messageHistory, Line(u, "msg"), SETTINGS.maxHistoryLength)
  /\ IF ~HasElevatedPrivileges(u)
     THEN /\ PassThrough(u, FALSE, "auto-denied")
          /\ UNCHANGED SETTINGS
     ELSE /\ SETTINGS' = [SETTINGS EXCEPT !.enableAutoMessages = ~SETTINGS.enableAutoMessages]
          /\ tasks' = Append(tasks, Task("auto", "save", u))
          /\ ev' = Ev("auto-set", u, 0, 0, "-", "-")
          /\ UNCHANGED lastBotMentionTime
  /\ UNCHANGED <<botPaused, quotaUsage, userResponseCounts, now,
                 subgiftBuffer, uncaught, giftsAccepted, giftsAcked, lastIdleStart>>

\* after `await saveSettings()`: the notice for the state this call chose, or the
\* rejection leaves the handler
ResolveAutoSave(i, save) ==
  /\ ~uncaught /\ ~exited /\ UNCHANGED lifeVars /\ UNCHANGED imagesCompleted
  /\ UNCHANGED <<scheduleVars, promptVars>>
  /\ i \in 1..Len(tasks)
  /\ tasks[i].kind = "auto"
  /\ tasks' = RemoveAt(tasks, i)
  /\ IF save = "ok"
     THEN /\ messageHistory' = AddMessage(messageHistory, BotLine("notice"),
                                          SETTINGS.maxHistoryLength)
          /\ ev' = Ev("auto-confirm", tasks[i].user, 1, 0, save, "notice")
          /\ UNCHANGED uncaught
     ELSE /\ uncaught' = TRUE
          /\ ev' = Ev("auto-crashed", tasks[i].user, 0, 0, save, "-")
          /\ UNCHANGED messageHistory
  /\ UNCHANGED <<SETTINGS, botPaused, quotaUsage, userResponseCounts, lastBotMentionTime, now,
                 subgiftBuffer, giftsAccepted, giftsAcked, lastIdleStart>>

(* "!aisysprompt [text]": CommandHandler.handleSystemPromptUpdate *)

SysPromptCommand(u, hasArg, named) ==
  /\ ~uncaught /\ ~exited /\ UNCHANGED lifeVars /\ UNCHANGED imagesCompleted
  /\ named => hasArg      \* the bot's name can only be in the text after the command
  /\ UNCHANGED <<scheduleVars, waifus>>
  /\ LET h0 == AddMessage(messageHistory, Line(u, "msg"), SETTINGS.maxHistoryLength)
     IN  IF ~HasElevatedPrivileges(u)
         THEN /\ messageHistory' = h0
              /\ PassThrough(u, named, "sysprompt-denied")
              /\ UNCHANGED systemPrompt
         ELSE IF ~hasArg
         THEN /\ messageHistory' = AddMessage(h0, BotLine("invalid"), SETTINGS.maxHistoryLength)
              /\ ev' = EvNamed(Ev("sysprompt-invalid", u, 1, 0, "-", "invalid"), named)
              /\ CommandHandled(named)
              /\ UNCHANGED <<systemPrompt, tasks>>
         ELSE /\ systemPrompt' = SetSystemPrompt("custom", waifus)
              /\ messageHistory' = AddMessage(h0, BotLine("notice"), SETTINGS.maxHistoryLength)
              /\ ev' = EvNamed(Ev("sysprompt-set", u, 1, 0, "-", "notice"), named)
              /\ CommandHandled(named)
              /\ UNCHANGED tasks
  /\ UNCHANGED <<SETTINGS, botPaused, quotaUsage, userResponseCounts, now, subgiftBuffer,
                 uncaught, giftsAccepted, giftsAcked, lastIdleStart>>

(* "!airesetprompt": CommandHandler.handleSystemPromptReset *)

ResetPromptCommand(u) ==
  /\ ~uncaught /\ ~exited /\ UNCHANGED lifeVars /\ UNCHANGED imagesCompleted
  /\ UNCHANGED <<scheduleVars, waifus>>
  /\ LET h0 == AddMessage(messageHistory, Line(u, "msg"), SETTINGS.maxHistoryLength)
     IN  IF ~HasElevatedPrivileges(u)
         THEN /\ messageHistory' = h0
              /\ PassThrough(u, FALSE, "resetprompt-denied")
              /\ UNCHANGED systemPrompt
         ELSE /\ systemPrompt' = ResetSystemPrompt(waifus)
              /\ messageHistory' = AddMessage(h0, BotLine("notice"), SETTINGS.maxHistoryLength)
              /\ ev' = Ev("resetprompt-set", u, 1, 0, "-", "notice")
              /\ UNCHANGED <<lastBotMentionTime, tasks>>
  /\ UNCHANGED <<SETTINGS, botPaused, quotaUsage, userResponseCounts, now, subgiftBuffer,
                 uncaught, giftsAccepted, giftsAcked, lastIdleStart>>

(* "!aihelp": CommandHandler.handleHelpCommand *)

HelpCommand(u) ==
  /\ ~uncaught /\ ~exited /\ UNCHANGED lifeVars /\ UNCHANGED imagesCompleted
  /\ UNCHANGED <<scheduleVars, promptVars>>
  /\ LET h0 == AddMessage(messageHistory, Line(u, "msg"), SETTINGS.maxHistoryLength)
     IN  IF ~HasElevatedPrivileges(u)
         THEN /\ messageHistory' = h0
              /\ PassThrough(u, FALSE, "help-denied")
         ELSE /\ messageHistory' = AddMessage(h0, BotLine("help"), SETTINGS.maxHistoryLength)
              /\ ev' = Ev("help-sent", u, 1, 0, "-", "help")
              /\ UNCHANGED <<lastBotMentionTime, tasks>>
  /\ UNCHANGED <<SETTINGS, botPaused, quotaUsage, userResponseCounts, now, subgiftBuffer,
                 uncaught, giftsAccepted, giftsAcked, lastIdleStart>>

(* "!airesetquota": CommandHandler.handleQuotaReset, for the owner name only. *)
(* resetQuota starts saveSettings() without awaiting it.                      *)

QuotaResetCommand(u, save) ==
  /\ ~uncaught /\ ~exited /\ UNCHANGED lifeVars
  /\ UNCHANGED <<scheduleVars, promptVars>>
  /\ messageHistory' = AddMessage(messageHistory, Line(u, "msg"), SETTINGS.maxHistoryLength)
  /\ IF u # Owner
     THEN /\ save = "ok"
          /\ PassThrough(u, FALSE, "quotareset-denied")
          /\ UNCHANGED <<quotaUsage, imagesCompleted, uncaught>>
     ELSE /\ quotaUsage' = 0
          /\ imagesCompleted' = 0
          /\ uncaught' = (save = "fail")
          /\ ev' = Ev("quotareset-done", u, 1, 0, save, "notice")
          /\ UNCHANGED <<lastBotMentionTime, tasks>>
  /\ UNCHANGED <<SETTINGS, botPaused, userResponseCounts, now, subgiftBuffer,
                 giftsAccepted, giftsAcked, lastIdleStart>>

(* "!so <name>": CommandHandler.handleShoutoutCommand / performShoutout *)

\* up to `await twitchApiService.generateShoutout(...)`
ShoutoutCommand(u, wellFormed, named) ==
  /\ ~uncaught /\ ~exited /\ UNCHANGED lifeVars /\ UNCHANGED imagesCompleted
  /\ UNCHANGED <<scheduleVars, promptVars>>
  /\ Len(tasks) < MaxTasks
  /\ messageHistory' = AddMessage(messageHistory, Line(u, "msg"), SETTINGS.maxHistoryLength)
  /\ IF ~SETTINGS.enableShoutoutCommand
     THEN PassThrough(u, named, "so-disabled")
     ELSE IF ~HasElevatedPrivileges(u)
     THEN PassThrough(u, named, "so-denied")
     ELSE IF ~wellFormed
     THEN /\ ev' = EvNamed(Ev("so-invalid", u, 1, 0, "-", "invalid"), named)
          /\ CommandHandled(named)
          /\ UNCHANGED tasks
     ELSE /\ tasks' = Append(tasks, Task("so", "api", u))
          /\ ev' = EvNamed(Ev("so-start", u, 0, 0, "-", "-"), named)
          /\ CommandHandled(named)
  /\ UNCHANGED <<SETTINGS, botPaused, quotaUsage, userResponseCounts, now, subgiftBuffer,
                 uncaught, giftsAccepted, giftsAcked, lastIdleStart>>

\* how generateShoutout (which catches its own errors) and getChatResponse end
ShoutoutOutcomes(stage) ==
  IF stage = "api" THEN {"ok", "unsuccessful"} ELSE GatewayOutcomes

\* performShoutout after each await.  getChatResponse resolves with an object and
\* .replace on it throws, so the catch branch sends the templated shoutout whatever
\* the gateway did; no shoutout message is recorded in the history
ResolveShoutout(i, outcome) ==
  /\ ~uncaught /\ ~exited /\ UNCHANGED lifeVars /\ UNCHANGED imagesCompleted
  /\ UNCHANGED <<scheduleVars, promptVars>>
  /\ i \in 1..Len(tasks)
  /\ tasks[i].kind = "so"
  /\ outcome \in ShoutoutOutcomes(tasks[i].stage)
  /\ IF tasks[i].stage = "api" /\ outcome = "ok"
     THEN /\ tasks' = [tasks EXCEPT ![i].stage = "gateway"]
          /\ ev' = Ev("so-generate", tasks[i].user, 0, 1, outcome, "-")
     ELSE /\ tasks' = RemoveAt(tasks, i)
          /\ ev' = Ev("so-reply", tasks[i].user, 1, 0, outcome,
                      IF tasks[i].stage = "api" THEN "not-found" ELSE "template")
  /\ UNCHANGED <<messageHistory, SETTINGS, botPaused, quotaUsage, userResponseCounts,
                 lastBotMentionTime, now, subgiftBuffer, uncaught, giftsAccepted, giftsAcked,
                 lastIdleStart>>

----------------------------------------------------------------------------
(* EventHandler: subscription events *)

SubTypes == {"sub", "resub", "subMysteryGift", "primePaidUpgrade"}

\* handleSubscription / handleResubscription / handleSubMysteryGift / handlePrimeUpgrade,
\* up to the await in handleSubscriptionEvent
SubEvent(u, type) ==
  /\ ~uncaught /\ ~exited /\ UNCHANGED lifeVars /\ UNCHANGED imagesCompleted
  /\ UNCHANGED <<scheduleVars, promptVars>>
  /\ Len(tasks) < MaxTasks
  /\ IF botPaused
     THEN /\ ev' = Ev("sub-paused", u, 0, 0, "-", "-")
          /\ UNCHANGED tasks
     ELSE /\ tasks' = Append(tasks, Task("sub", type, u))
          /\ ev' = Ev("sub-start", u, 0, 1, "-", "-")
  /\ UNCHANGED <<messageHistory, SETTINGS, botPaused, quotaUsage, userResponseCounts,
                 lastBotMentionTime, now, subgiftBuffer, uncaught, giftsAccepted, giftsAcked,
                 lastIdleStart>>

\* the text handleSubscriptionEvent / handleGroupedSubgift send: the response, the
\* fallback for an empty response, or the catch branch's template
AckText(outcome) ==
  CASE outcome = "text"  -> "reply"
    [] outcome = "empty" -> "fallback"
    [] OTHER             -> "template"

\* handleSubscriptionEvent after the await (subscription events and individual gifts)
ResolveSubscriptionEvent(i, outcome) ==
  /\ ~uncaught /\ ~exited /\ UNCHANGED lifeVars /\ UNCHANGED imagesCompleted
  /\ UNCHANGED <<scheduleVars, promptVars>>
  /\ i \in 1..Len(tasks)
  /\ tasks[i].kind \in {"sub", "gift"}
  /\ tasks' = RemoveAt(tasks, i)
  /\ giftsAcked' = giftsAcked + tasks[i].covers
  /\ ev' = Ev(tasks[i].kind \o "-reply", tasks[i].user, 1, 0, outcome, AckText(outcome))
  /\ UNCHANGED <<messageHistory, SETTINGS, botPaused, quotaUsage, userResponseCounts,
                 lastBotMentionTime, now, subgiftBuffer, uncaught, giftsAccepted, lastIdleStart>>

----------------------------------------------------------------------------
(* EventHandler: gift buffer *)

\* what a subGift event did, with the event's methods.wasAnonymous and whether its
\* userstate carries msg-param-community-gift-id
EvGift(op, u, anonymous, community) ==
  Ev(op, u, 0, 0, "-", "-") @@ [anonymous |-> anonymous, community |-> community]

\* a filter that looks at the anonymous flag only
HandleSubgiftAnonymousOnly(u, anonymous, community) ==
  /\ ~uncaught /\ ~exited /\ UNCHANGED lifeVars /\ UNCHANGED imagesCompleted
  /\ UNCHANGED <<scheduleVars, promptVars>>
  /\ giftsAccepted < MaxGifts
  /\ IF botPaused \/ anonymous
     THEN /\ ev' = EvGift("gift-skipped", u, anonymous, community)
          /\ UNCHANGED <<subgiftBuffer, giftsAccepted>>
     ELSE /\ subgiftBuffer' = Append(subgiftBuffer, u)
          /\ giftsAccepted' = giftsAccepted + 1
          /\ ev' = EvGift("gift-buffered", u, anonymous, community)
  /\ UNCHANGED <<messageHistory, SETTINGS, botPaused, quotaUsage, userResponseCounts,
                 lastBotMentionTime, now, tasks, uncaught, giftsAcked, lastIdleStart>>

\* handleSubgift: dropped when paused, anonymous or part of a community gift
HandleSubgift(u, anonymous, community) ==
  /\ ~uncaught /\ ~exited /\ UNCHANGED lifeVars /\ UNCHANGED imagesCompleted
  /\ UNCHANGED <<scheduleVars, promptVars>>
  /\ giftsAccepted < MaxGifts
  /\ IF botPaused \/ anonymous \/ community
     THEN /\ ev' = EvGift("gift-skipped", u, anonymous, community)
          /\ UNCHANGED <<subgiftBuffer, giftsAccepted>>
     ELSE /\ subgiftBuffer' = Append(subgiftBuffer, u)
          /\ giftsAccepted' = giftsAccepted + 1
          /\ ev' = EvGift("gift-buffered", u, anonymous, community)
  /\ UNCHANGED <<messageHistory, SETTINGS, botPaused, quotaUsage, userResponseCounts,
                 lastBotMentionTime, now, tasks, uncaught, giftsAcked, lastIdleStart>>

\* [...new Set(events.map(event => event.username))]
Gifters(buffer) == {buffer[k] : k \in 1..Len(buffer)}

\* handleIndividualSubgift for each buffered event, up to the await
IndividualGiftTasks(buffer) ==
  [k \in 1..Len(buffer) |-> [Task("gift", "gateway", buffer[k]) EXCEPT !.covers = 1]]

\* handleGroupedSubgift, up to the await
GroupedGiftTask(buffer) ==
  [Task("giftgroup", "gateway", NoUser) EXCEPT !.covers = Len(buffer), !.names = Gifters(buffer)]

\* a drain that already groups two gifts
DrainedTasksGroupAtTwo(buffer, paused) ==
  IF paused THEN <<>>
  ELSE IF Len(buffer) < GroupMin - 1 THEN IndividualGiftTasks(buffer)
  ELSE <<GroupedGiftTask(buffer)>>

\* the handlers processSubgiftBuffer starts; each of them returns at once when paused
DrainedTasks(buffer, paused) ==
  IF paused THEN <<>>
  ELSE IF Len(buffer) < GroupMin THEN IndividualGiftTasks(buffer)
  ELSE <<GroupedGiftTask(buffer)>>

\* processSubgiftBuffer, run by the 1-second interval timer
ProcessSubgiftBuffer ==
  /\ ~uncaught /\ ~exited /\ UNCHANGED lifeVars /\ UNCHANGED imagesCompleted
  /\ UNCHANGED <<scheduleVars, promptVars>>
  /\ LET started == IF Len(subgiftBuffer) > 0
                    THEN DrainedTasks(subgiftBuffer, botPaused) ELSE <<>>
     IN  /\ Len(tasks) + Len(started) <= MaxTasks
         /\ tasks' = tasks \o started
         /\ subgiftBuffer' = <<>>
         /\ ev' = Ev("drain", NoUser, 0, Len(started), "-", "-")
  /\ UNCHANGED <<messageHistory, SETTINGS, botPaused, quotaUsage, userResponseCounts,
                 lastBotMentionTime, now, uncaught, giftsAccepted, giftsAcked, lastIdleStart>>

\* handleGroupedSubgift after the await
ResolveGroupedSubgift(i, outcome) ==
  /\ ~uncaught /\ ~exited /\ UNCHANGED lifeVars /\ UNCHANGED imagesCompleted
  /\ UNCHANGED <<scheduleVars, promptVars>>
  /\ i \in 1..Len(tasks)
  /\ tasks[i].kind = "giftgroup"
  /\ tasks' = RemoveAt(tasks, i)
  /\ giftsAcked' = giftsAcked + tasks[i].covers
  /\ ev' = Ev("giftgroup-reply", NoUser, 1, 0, outcome, AckText(outcome))
  /\ UNCHANGED <<messageHistory, SETTINGS, botPaused, quotaUsage, userResponseCounts,
                 lastBotMentionTime, now, subgiftBuffer, uncaught, giftsAccepted, lastIdleStart>>

----------------------------------------------------------------------------
(* EventHandler: cheer and raid *)

\* the text handleCheer / handleRaid send: nothing when the gateway call failed
AlertSaid(outcome) == IF outcome = "fail" THEN 0 ELSE 1

AlertText(outcome) ==
  CASE outcome = "text"  -> "reply"
    [] outcome = "empty" -> "fallback"
    [] OTHER             -> "-"

\* chat message carrying bits: the message handler up to the await in handleCheer
\* (mention: the message also contains the bot's name)
CheerMessage(u, mention) ==
  /\ ~uncaught /\ ~exited /\ UNCHANGED lifeVars /\ UNCHANGED imagesCompleted
  /\ UNCHANGED <<scheduleVars, promptVars>>
  /\ Len(tasks) < MaxTasks
  /\ messageHistory' = AddMessage(messageHistory, Line(u, "msg"), SETTINGS.maxHistoryLength)
  /\ IF botPaused
     THEN /\ ev' = Ev("cheer-paused", u, 0, 0, "-", "-")
          /\ UNCHANGED <<tasks, lastBotMentionTime>>
     ELSE IF SETTINGS.enableBitsAlerts
     THEN /\ tasks' = Append(tasks, [Task("cheer", "gateway", u) EXCEPT !.alsoMention = mention])
          /\ ev' = Ev("cheer-start", u, 0, 1, "-", "-")
          /\ UNCHANGED lastBotMentionTime
     ELSE IF mention /\ CanRespondToUser(userResponseCounts, u)
     THEN /\ lastBotMentionTime' = now
          /\ tasks' = Append(tasks, [Task("mention", "gateway", u) EXCEPT
                                        !.final = IsLimitResponse(userResponseCounts, u)])
          /\ ev' = Ev("mention-start", u, 0, 1, "-", "-")
     ELSE /\ ev' = Ev("cheer-disabled", u, 0, 0, "-", "-")
          /\ UNCHANGED <<tasks, lastBotMentionTime>>
  /\ UNCHANGED <<SETTINGS, botPaused, quotaUsage, userResponseCounts, now, subgiftBuffer,
                 uncaught, giftsAccepted, giftsAcked, lastIdleStart>>

\* handleCheer after the await, then the rest of the message handler
ResolveCheer(i, outcome) ==
  /\ ~uncaught /\ ~exited /\ UNCHANGED lifeVars /\ UNCHANGED imagesCompleted
  /\ UNCHANGED <<scheduleVars, promptVars>>
  /\ i \in 1..Len(tasks)
  /\ tasks[i].kind = "cheer"
  /\ LET u == tasks[i].user
         rest == RemoveAt(tasks, i)
     IN  IF tasks[i].alsoMention /\ CanRespondToUser(userResponseCounts, u)
         THEN /\ lastBotMentionTime' = now
              /\ tasks' = Append(rest, [Task("mention", "gateway", u) EXCEPT
                                           !.final = IsLimitResponse(userResponseCounts, u)])
              /\ ev' = Ev("cheer-reply", u, AlertSaid(outcome), 1, outcome, AlertText(outcome))
         ELSE /\ tasks' = rest
              /\ ev' = Ev("cheer-reply", u, AlertSaid(outcome), 0, outcome, AlertText(outcome))
              /\ UNCHANGED lastBotMentionTime
  /\ UNCHANGED <<messageHistory, SETTINGS, botPaused, quotaUsage, userResponseCounts, now,
                 subgiftBuffer, uncaught, giftsAccepted, giftsAcked, lastIdleStart>>

\* handleRaid up to the await
RaidEvent(u) ==
  /\ ~uncaught /\ ~exited /\ UNCHANGED lifeVars /\ UNCHANGED imagesCompleted
  /\ UNCHANGED <<scheduleVars, promptVars>>
  /\ Len(tasks) < MaxTasks
  /\ IF botPaused \/ ~SETTINGS.enableRaidsAlerts
     THEN /\ ev' = Ev("raid-skipped", u, 0, 0, "-", "-")
          /\ UNCHANGED tasks
     ELSE /\ tasks' = Append(tasks, Task("raid", "gateway", u))
          /\ ev' = Ev("raid-start", u, 0, 1, "-", "-")
  /\ UNCHANGED <<messageHistory, SETTINGS, botPaused, quotaUsage, userResponseCounts,
                 lastBotMentionTime, now, subgiftBuffer, uncaught, giftsAccepted, giftsAcked,
                 lastIdleStart>>

\* handleRaid after the await
ResolveRaid(i, outcome) ==
  /\ ~uncaught /\ ~exited /\ UNCHANGED lifeVars /\ UNCHANGED imagesCompleted
  /\ UNCHANGED <<scheduleVars, promptVars>>
  /\ i \in 1..Len(tasks)
  /\ tasks[i].kind = "raid"
  /\ tasks' = RemoveAt(tasks, i)
  /\ ev' = Ev("raid-reply", tasks[i].user, AlertSaid(outcome), 0, outcome, AlertText(outcome))
  /\ UNCHANGED <<messageHistory, SETTINGS, botPaused, quotaUsage, userResponseCounts,
                 lastBotMentionTime, now, subgiftBuffer, uncaught, giftsAccepted, giftsAcked,
                 lastIdleStart>>

----------------------------------------------------------------------------
(* AutoMessageHandler: idle emitter.  The clock advances by one 30-second unit *)
(* for each run of the interval callback.                                      *)

\* helpers.hasTimeElapsed
HasTimeElapsed(t, lastTime, threshold) == t - lastTime >= threshold

\* a test that does not look at the pause flag
ShouldSendAutoMessageWhilePaused(t) ==
  /\ SETTINGS.enableAutoMessages
  /\ HasTimeElapsed(t, lastBotMentionTime, SETTINGS.inactivityThreshold)
  /\ ~(Len(messageHistory) > 0 /\ IsBotLine(Last(messageHistory)))

\* BotState.shouldSendAutoMessage, its result
ShouldSendAutoMessage(t) ==
  /\ ~botPaused
  /\ SETTINGS.enableAutoMessages
  /\ HasTimeElapsed(t, lastBotMentionTime, SETTINGS.inactivityThreshold)
  /\ ~(Len(messageHistory) > 0 /\ IsBotLine(Last(messageHistory)))

\* BotState.shouldSendAutoMessage, its side effect: updateLastMentionTime when the
\* threshold has passed and the newest line is the bot's
LastLineIsBots(t) ==
  /\ ~botPaused
  /\ SETTINGS.enableAutoMessages
  /\ HasTimeElapsed(t, lastBotMentionTime, SETTINGS.inactivityThreshold)
  /\ Len(messageHistory) > 0
  /\ IsBotLine(Last(messageHistory))

\* checkAndSendAutoMessage and sendAutoMessage up to the await
IdleTick ==
  /\ ~uncaught /\ ~exited /\ UNCHANGED lifeVars /\ UNCHANGED imagesCompleted
  /\ UNCHANGED <<scheduleVars, promptVars>>
  /\ now < MaxTime
  /\ now' = now + 1
  /\ IF ShouldSendAutoMessage(now') /\ Len(messageHistory) > 0
     THEN /\ Len(tasks) < MaxTasks
          /\ tasks' = Append(tasks, Task("idle", "gateway", NoUser))
          /\ lastIdleStart' = <<now'>>
          /\ ev' = Ev("idle-start", NoUser, 0, 1, "-", "-")
          /\ UNCHANGED lastBotMentionTime
     ELSE /\ lastBotMentionTime' = IF LastLineIsBots(now') THEN now' ELSE lastBotMentionTime
          /\ ev' = Ev("idle-skip", NoUser, 0, 0, "-", "-")
          /\ UNCHANGED <<tasks, lastIdleStart>>
  /\ UNCHANGED <<messageHistory, SETTINGS, botPaused, quotaUsage, userResponseCounts,
                 subgiftBuffer, uncaught, giftsAccepted, giftsAcked>>

\* getChatResponse resolves with an object; cleanResponse calls .replace on it, a
\* TypeError, so the catch branch sends the configured fallbackMessage in every case
IdleReplyText(outcome) == "fallback"

\* sendAutoMessage after the await
ResolveIdle(i, outcome) ==
  /\ ~uncaught /\ ~exited /\ UNCHANGED lifeVars /\ UNCHANGED imagesCompleted
  /\ UNCHANGED <<scheduleVars, promptVars>>
  /\ i \in 1..Len(tasks)
  /\ tasks[i].kind = "idle"
  /\ tasks' = RemoveAt(tasks, i)
  /\ messageHistory' = AddMessage(messageHistory, BotLine(IdleReplyText(outcome)),
                                  SETTINGS.maxHistoryLength)
  /\ lastBotMentionTime' = now
  /\ ev' = Ev("idle-reply", NoUser, 1, 0, outcome, IdleReplyText(outcome))
  /\ UNCHANGED <<SETTINGS, botPaused, quotaUsage, userResponseCounts, now, subgiftBuffer,
                 uncaught, giftsAccepted, giftsAcked, lastIdleStart>>

----------------------------------------------------------------------------
(* ScheduledMessageHandler: rotation emitter.  The clock advances by one      *)
(* 30-second unit for each run of the interval callback.                      *)

\* ScheduledMessageHandler.shouldSendScheduledMessage
ShouldSendScheduledMessage(t) ==
  /\ SETTINGS.enableScheduledMessages
  /\ ~botPaused
  /\ Len(SETTINGS.scheduledMessages) > 0
  /\ \/ lastScheduledMessageTime = <<>>
     \/ t - lastScheduledMessageTime[1] >= SETTINGS.scheduledMessageTimer

AdvanceWithoutWrap(index) == index + 1

\* a cursor that stops at the last entry
AdvanceUntilLast(index) ==
  IF index + 1 >= Len(SETTINGS.scheduledMessages) THEN index ELSE index + 1

\* ScheduledMessageHandler.advanceToNextMessage
AdvanceToNextMessage(index) ==
  IF Len(SETTINGS.scheduledMessages) = 0 THEN index
  ELSE (index + 1) % Len(SETTINGS.scheduledMessages)

\* checkAndSendScheduledMessage and sendScheduledMessage: a static descriptor is sent
\* at once, an 'ai' descriptor suspends at `await aiService.getChatResponse(...)`
ScheduleTick ==
  /\ ~uncaught /\ ~exited /\ UNCHANGED lifeVars /\ UNCHANGED imagesCompleted
  /\ now < MaxTime
  /\ now' = now + 1
  /\ IF ~ShouldSendScheduledMessage(now')
     THEN /\ ev' = Ev("schedule-skip", NoUser, 0, 0, "-", "-")
          /\ UNCHANGED <<messageHistory, tasks, scheduleVars>>
     ELSE IF currentMessageIndex >= Len(SETTINGS.scheduledMessages)
     THEN \* scheduledMessages[currentMessageIndex] is undefined: reading .type throws
          \* inside the try block, the catch block advances the cursor
          /\ currentMessageIndex' = AdvanceToNextMessage(currentMessageIndex)
          /\ lastFireIndex' = <<currentMessageIndex>>
          /\ ev' = Ev("schedule-undefined", NoUser, 0, 0, "-", "-")
          /\ UNCHANGED <<messageHistory, tasks, lastScheduledMessageTime, lastScheduledPost>>
     ELSE IF SETTINGS.scheduledMessages[currentMessageIndex + 1] = "static"
     THEN /\ messageHistory' = AddMessage(messageHistory, BotLine("static"),
                                          SETTINGS.maxHistoryLength)
          /\ lastScheduledMessageTime' = <<now'>>
          /\ lastScheduledPost' = <<now'>>
          /\ currentMessageIndex' = AdvanceToNextMessage(currentMessageIndex)
          /\ lastFireIndex' = <<currentMessageIndex>>
          /\ ev' = Ev("schedule-static", NoUser, 1, 0, "-", "static")
          /\ UNCHANGED tasks
     ELSE /\ Len(tasks) < MaxTasks
          /\ tasks' = Append(tasks, [Task("schedule", "gateway", NoUser) EXCEPT
                                        !.index = currentMessageIndex])
          /\ lastFireIndex' = <<currentMessageIndex>>
          /\ ev' = Ev("schedule-start", NoUser, 0, 1, "-", "-")
          /\ UNCHANGED <<messageHistory, currentMessageIndex, lastScheduledMessageTime,
                         lastScheduledPost>>
  /\ UNCHANGED <<SETTINGS, botPaused, quotaUsage, userResponseCounts, lastBotMentionTime,
                 subgiftBuffer, uncaught, giftsAccepted, giftsAcked, lastIdleStart,
                 promptVars>>

\* sendScheduledMessage after the await: the text is sent and the timestamp updated,
\* an empty text or a failure only advances the cursor
ResolveSchedule(i, outcome) ==
  /\ ~uncaught /\ ~exited /\ UNCHANGED lifeVars /\ UNCHANGED imagesCompleted
  /\ i \in 1..Len(tasks)
  /\ tasks[i].kind = "schedule"
  /\ tasks' = RemoveAt(tasks, i)
  /\ currentMessageIndex' = AdvanceToNextMessage(currentMessageIndex)
  /\ UNCHANGED lastFireIndex
  /\ IF outcome = "text"
     THEN /\ messageHistory' = AddMessage(messageHistory, BotLine("reply"),
                                          SETTINGS.maxHistoryLength)
          /\ lastScheduledMessageTime' = <<now>>
          /\ lastScheduledPost' = <<now>>
          /\ ev' = Ev("schedule-reply", NoUser, 1, 0, outcome, "reply")
     ELSE /\ ev' = Ev("schedule-reply", NoUser, 0, 0, outcome, "-")
          /\ UNCHANGED <<messageHistory, lastScheduledMessageTime, lastScheduledPost>>
  /\ UNCHANGED <<SETTINGS, botPaused, quotaUsage, userResponseCounts, lastBotMentionTime,
                 now, subgiftBuffer, uncaught, giftsAccepted, giftsAcked, lastIdleStart,
                 promptVars>>

----------------------------------------------------------------------------
(* The rotation emitter under ticks, gateway delays, pause and resume *)

InitSchedule ==
  /\ InitCommon
  /\ quotaUsage = 0
  /\ \E on \in BOOLEAN, list \in {<<>>, ScheduledMessages} :
       SETTINGS = [InitSettings(1, IdleThreshold) EXCEPT !.enableScheduledMessages = on,
                                                         !.scheduledMessages = list]

NextSchedule ==
  \/ ScheduleTick
  \/ \E i \in 1..MaxTasks, o \in GatewayOutcomes : ResolveSchedule(i, o)
  \/ \E u \in Users : PauseCommand(u)
  \/ \E u \in Users : ResumeCommand(u)

SpecSchedule == InitSchedule /\ [][NextSchedule]_vars

\* C12: when a scheduled fire ends, the cursor is one step (circularly) past the
\* cursor the fire started from, whatever the outcome of the fire
CursorAdvancesByOne ==
  [][/\ ev'.op = "schedule-static" =>
          currentMessageIndex' = (currentMessageIndex + 1) % Len(SETTINGS.scheduledMessages)
     /\ ev'.op = "schedule-reply" =>
          \E i \in 1..Len(tasks) :
            /\ tasks[i].kind = "schedule"
            /\ tasks' = RemoveAt(tasks, i)
            /\ currentMessageIndex' = (tasks[i].index + 1) % Len(SETTINGS.scheduledMessages)]_vars

\* C13: a scheduled fire starts only when the feature is on, the bot is running and
\* the list is non-empty, and two scheduled messages are never sent to chat less than
\* scheduledMessageTimer apart
ScheduledPostsSpaced ==
  [][/\ ev'.op \in {"schedule-static", "schedule-start"} =>
          /\ SETTINGS.enableScheduledMessages
          /\ ~botPaused
          /\ Len(SETTINGS.scheduledMessages) > 0
     /\ (ev'.op \in {"schedule-static", "schedule-reply"} /\ ev'.said = 1
           /\ lastScheduledPost # <<>>) =>
          now' - lastScheduledPost[1] >= SETTINGS.scheduledMessageTimer]_vars

----------------------------------------------------------------------------
(* The rotation emitter while entries are deleted on the settings page *)

\* Web interface, POST / with deleteScheduledMessageIndex: after loadSettings the entry
\* is spliced out of the list when the index is within it, and saveSettings is awaited
WebDeleteScheduledMessage(deleteIndex, save) ==
  /\ ~uncaught /\ ~exited /\ UNCHANGED lifeVars /\ UNCHANGED imagesCompleted
  /\ UNCHANGED <<scheduleVars, promptVars>>
  /\ IF deleteIndex >= 0 /\ deleteIndex < Len(SETTINGS.scheduledMessages)
     THEN /\ SETTINGS' = [SETTINGS EXCEPT
                            !.scheduledMessages = RemoveAt(@, deleteIndex + 1)]
          /\ uncaught' = (save = "fail")
          /\ ev' = Ev("web-delete-scheduled", NoUser, 0, 0, save, "-")
     ELSE /\ save = "ok"
          /\ ev' = Ev("web-delete-none", NoUser, 0, 0, "-", "-")
          /\ UNCHANGED <<SETTINGS, uncaught>>
  /\ UNCHANGED <<messageHistory, botPaused, quotaUsage, userResponseCounts, lastBotMentionTime,
                 now, subgiftBuffer, tasks, giftsAccepted, giftsAcked, lastIdleStart>>

\* the steps in which a scheduled fire reads the entry under the cursor
FireOps == {"schedule-static", "schedule-start", "schedule-undefined"}

\* C34: over a list of fixed length L each scheduled fire reads the entry one step
\* (circularly) past the entry the fire before it read, so no two fires in a row use
\* the same cursor position and any L fires in a row use L distinct indices in
\* rotation order, also when a tick comes while an earlier 'ai' fire is awaited
FiresInRotationOrder ==
  [][(ev'.op \in FireOps /\ lastFireIndex # <<>>)
        => currentMessageIndex
             = (lastFireIndex[1] + 1) % Len(SETTINGS.scheduledMessages)]_vars

----------------------------------------------------------------------------
(* BotState: shared image quota *)

IsQuotaExceededAboveLimit(usage, limit) == usage > limit

\* BotState.isQuotaExceeded
IsQuotaExceeded(usage, limit) == usage >= limit

\* BotState.incrementQuota (the counter; its un-awaited saveSettings() is in the actions)
IncrementQuota(usage) == usage + 1

\* handleImageGeneration, both failure branches: Math.max(0, quotaUsage - 1)
RefundQuota(usage) == IF usage - 1 > 0 THEN usage - 1 ELSE 0

\* BotState.resetQuota, run by the 24-hour interval timer; saveSettings() is not awaited
ResetQuota(save) ==
  /\ ~uncaught /\ ~exited /\ UNCHANGED lifeVars
  /\ UNCHANGED <<scheduleVars, promptVars>>
  /\ quotaUsage' = 0
  /\ imagesCompleted' = 0
  /\ uncaught' = (save = "fail")
  /\ ev' = Ev("quota-reset", NoUser, 0, 0, save, "-")
  /\ UNCHANGED <<messageHistory, SETTINGS, botPaused, userResponseCounts, lastBotMentionTime,
                 now, subgiftBuffer, tasks, giftsAccepted, giftsAcked, lastIdleStart>>

----------------------------------------------------------------------------
(* Chat message handler, "!imagine [prompt]": CommandHandler.handleImageGeneration. *)
(* useOpenAI and openaiApiKey are taken to be configured.                          *)

\* up to the first await: generatePromptFromContext (no prompt given) or generateImage
ImageCommand(u, withPrompt, save) ==
  /\ ~uncaught /\ ~exited /\ UNCHANGED lifeVars /\ UNCHANGED imagesCompleted
  /\ UNCHANGED <<scheduleVars, promptVars>>
  /\ Len(tasks) < MaxTasks
  /\ LET h0 == AddMessage(messageHistory, Line(u, "msg"), SETTINGS.maxHistoryLength)
     IN  /\ messageHistory' = h0
         /\ IF ~SETTINGS.enableImageGeneration
            THEN \* the handler returns false: the mention dispatch follows, and a
                 \* prompt can name the bot
                 /\ save = "ok"
                 /\ \E named \in {FALSE, withPrompt} : PassThrough(u, named, "image-disabled")
                 /\ UNCHANGED <<quotaUsage, uncaught>>
            ELSE IF IsQuotaExceeded(quotaUsage, SETTINGS.quotaLimit)
            THEN /\ save = "ok"
                 /\ ev' = Ev("image-quota-reached", u, 1, 0, "-", "quota-reached")
                 /\ UNCHANGED <<quotaUsage, tasks, uncaught, lastBotMentionTime>>
            ELSE IF ~withPrompt /\ Len(h0) = 0
            THEN /\ save = "ok"
                 /\ ev' = Ev("image-no-context", u, 1, 0, "-", "no-context")
                 /\ UNCHANGED <<quotaUsage, tasks, uncaught, lastBotMentionTime>>
            ELSE IF ~withPrompt
            THEN /\ save = "ok"
                 /\ tasks' = Append(tasks, [Task("image", "prompt", u) EXCEPT !.usage0 = quotaUsage])
                 /\ ev' = Ev("image-prompt-start", u, 0, 1, "-", "-")
                 /\ UNCHANGED <<quotaUsage, uncaught, lastBotMentionTime>>
            ELSE /\ quotaUsage' = IncrementQuota(quotaUsage)
                 /\ uncaught' = (save = "fail")
                 /\ tasks' = Append(tasks, [Task("image", "image", u) EXCEPT !.usage0 = quotaUsage])
                 /\ ev' = Ev("image-start", u, 0, 1, save, "-")
                 /\ UNCHANGED lastBotMentionTime
  /\ UNCHANGED <<SETTINGS, botPaused, userResponseCounts, now,
                 subgiftBuffer, giftsAccepted, giftsAcked, lastIdleStart>>

ImageStages == {"prompt", "image", "download", "mkdir", "write", "saveRefund", "saveCatch"}

\* the await that follows each successful await of the try block
NextImageStage(stage) ==
  CASE stage = "prompt"   -> "image"
    [] stage = "image"    -> "download"
    [] stage = "download" -> "mkdir"
    [] stage = "mkdir"    -> "write"
    [] OTHER              -> "done"

\* how the awaited operation of a stage can end; generateImage can also resolve
\* with { success: false }
StageOutcomes(stage) ==
  IF stage = "image" THEN {"ok", "unsuccessful", "fail"} ELSE {"ok", "fail"}

SetStage(i, stage) == [tasks EXCEPT ![i].stage = stage]

\* the segment that runs when the awaited operation of task i ends with `outcome`;
\* `save` is the outcome of the saveSettings() that incrementQuota leaves un-awaited
ResolveImage(i, outcome, save) ==
  /\ ~uncaught /\ ~exited /\ UNCHANGED lifeVars
  /\ UNCHANGED <<scheduleVars, promptVars>>
  /\ i \in 1..Len(tasks)
  /\ tasks[i].kind = "image"
  /\ outcome \in StageOutcomes(tasks[i].stage)
  /\ imagesCompleted' = IF tasks[i].stage = "write" /\ outcome = "ok"
                        THEN imagesCompleted + 1 ELSE imagesCompleted
  /\ imagesCompleted' <= MaxImages
  /\ LET t == tasks[i]
         st == t.stage
     IN
     IF st = "saveCatch"
     THEN \* catch block, after `await saveSettings()`
          /\ save = "ok"
          /\ tasks' = RemoveAt(tasks, i)
          /\ IF outcome = "ok"
             THEN /\ ev' = Ev("image-failed", t.user, 1, 0, outcome, "image-error")
                  /\ UNCHANGED uncaught
             ELSE /\ ev' = Ev("image-crashed", t.user, 0, 0, outcome, "-")
                  /\ uncaught' = TRUE
          /\ UNCHANGED <<quotaUsage, messageHistory>>
     ELSE IF st = "saveRefund" /\ outcome = "ok"
     THEN \* `!imageResult.success` branch, after `await saveSettings()`
          /\ save = "ok"
          /\ tasks' = RemoveAt(tasks, i)
          /\ ev' = Ev("image-failed", t.user, 1, 0, outcome, "image-error")
          /\ UNCHANGED <<quotaUsage, messageHistory, uncaught>>
     ELSE IF st = "image" /\ outcome = "unsuccessful"
     THEN \* refund on failure, then `await saveSettings()`
          /\ save = "ok"
          /\ quotaUsage' = RefundQuota(quotaUsage)
          /\ tasks' = SetStage(i, "saveRefund")
          /\ ev' = Ev("image-refund", t.user, 0, 0, outcome, "-")
          /\ UNCHANGED <<messageHistory, uncaught>>
     ELSE IF outcome = "fail"
     THEN \* an await of the try block rejected: catch block up to `await saveSettings()`
          /\ save = "ok"
          /\ quotaUsage' = RefundQuota(quotaUsage)
          /\ tasks' = SetStage(i, "saveCatch")
          /\ ev' = Ev("image-catch", t.user, 0, 0, outcome, "-")
          /\ UNCHANGED <<messageHistory, uncaught>>
     ELSE IF st = "prompt"
     THEN \* prompt generated: incrementQuota, then `await generateImage`
          /\ quotaUsage' = IncrementQuota(quotaUsage)
          /\ uncaught' = (save = "fail")
          /\ tasks' = SetStage(i, "image")
          /\ ev' = Ev("image-start-prompted", t.user, 0, 1, save, "-")
          /\ UNCHANGED messageHistory
     ELSE IF st = "write"
     THEN \* image stored: the link is sent and a bot line recorded
          /\ save = "ok"
          /\ tasks' = RemoveAt(tasks, i)
          /\ messageHistory' = AddMessage(messageHistory, BotLine("image"),
                                          SETTINGS.maxHistoryLength)
          /\ ev' = Ev("image-done", t.user, 1, 0, outcome, "image")
          /\ UNCHANGED <<quotaUsage, uncaught>>
     ELSE \* image / download / mkdir succeeded: on to the next await
          /\ save = "ok"
          /\ tasks' = SetStage(i, NextImageStage(st))
          /\ ev' = Ev("image-step", t.user, 0, 0, outcome, "-")
          /\ UNCHANGED <<quotaUsage, messageHistory, uncaught>>
  /\ UNCHANGED <<SETTINGS, botPaused, userResponseCounts, lastBotMentionTime, now,
                 subgiftBuffer, giftsAccepted, giftsAcked, lastIdleStart>>

ImageOutcomes == {"ok", "unsuccessful", "fail"}

----------------------------------------------------------------------------
(* The image quota under interleaved image commands and quota resets *)

InitQuota ==
  /\ InitCommon
  /\ quotaUsage \in 0..QuotaLimit
  /\ SETTINGS = InitSettings(MaxCap, IdleThreshold)

NextQuota ==
  \/ \E u \in Users, p \in BOOLEAN, s \in SaveOutcomes : ImageCommand(u, p, s)
  \/ \E i \in 1..MaxTasks, o \in ImageOutcomes, s \in SaveOutcomes : ResolveImage(i, o, s)
  \/ \E s \in SaveOutcomes : ResetQuota(s)

SpecQuota == InitQuota /\ [][NextQuota]_vars

\* C33: quotaUsage is never smaller than the number of image commands that ran to
\* their end since the most recent quota reset
QuotaCoversCompletedImages == quotaUsage >= imagesCompleted

\* C2: the quota counter stays within 0..quotaLimit
QuotaWithinLimit == quotaUsage >= 0 /\ quotaUsage <= SETTINGS.quotaLimit

(* Image commands arriving while others are in flight, over a one-line history; *)
(* the awaited operations end in the order the commands arrived                 *)

InitQuotaGate ==
  /\ InitCommon
  /\ quotaUsage \in 0..QuotaLimit
  /\ SETTINGS = InitSettings(1, IdleThreshold)

NextQuotaGate ==
  \/ \E u \in Users, p \in BOOLEAN, s \in SaveOutcomes : ImageCommand(u, p, s)
  \/ \E o \in ImageOutcomes, s \in SaveOutcomes : ResolveImage(1, o, s)

SpecQuotaGate == InitQuotaGate /\ [][NextQuotaGate]_vars

\* the ways the first segment of handleImageGeneration can end
ImageCommandOps ==
  {"image-disabled", "image-disabled-named", "image-quota-reached", "image-no-context",
   "image-prompt-start", "image-start"}

\* C19: an enabled image command that arrives while quotaUsage >= quotaLimit posts the
\* limit-reached message, starts no prompt-generation or image-generation call and
\* leaves quotaUsage as it was
QuotaReachedDeclines ==
  [][(/\ ev'.op \in ImageCommandOps
      /\ SETTINGS.enableImageGeneration
      /\ quotaUsage >= SETTINGS.quotaLimit)
        => /\ ev'.op = "image-quota-reached"
           /\ ev'.said = 1 /\ ev'.text = "quota-reached"
           /\ ev'.gen = 0 /\ tasks' = tasks
           /\ quotaUsage' = quotaUsage]_vars

\* an image command was declined, with the counter past the limit and another
\* image command in flight
DeclinedPastLimit ==
  /\ ev.op = "image-quota-reached"
  /\ quotaUsage > SETTINGS.quotaLimit
  /\ tasks # <<>>

\* the steps that call incrementQuota and then start the paid generateImage call
PaidCallOps == {"image-start", "image-start-prompted"}

\* C31: the quota check and the quota increment of an image command are one step:
\* every step that increments the quota and starts the paid image call is taken
\* from a state in which isQuotaExceeded is false, so the counter is at most
\* quotaLimit after it and of two commands interleaving at quotaLimit - 1 at most
\* one reaches the paid call
QuotaCheckedWithIncrement ==
  [][ev'.op \in PaidCallOps
        => /\ ~IsQuotaExceeded(quotaUsage, SETTINGS.quotaLimit)
           /\ quotaUsage' = IncrementQuota(quotaUsage)
           /\ quotaUsage' <= SETTINGS.quotaLimit]_vars

(* One image command at a time, nothing else touching the quota *)

ImageCommandAlone(u, withPrompt, save) ==
  /\ tasks = <<>>
  /\ ImageCommand(u, withPrompt, save)

NextImageAlone ==
  \/ \E u \in Users, p \in BOOLEAN, s \in SaveOutcomes : ImageCommandAlone(u, p, s)
  \/ \E o \in ImageOutcomes, s \in SaveOutcomes : ResolveImage(1, o, s)

SpecImageAlone == InitQuota /\ [][NextImageAlone]_vars

\* C7: a failed image command leaves quotaUsage at its value from before the command
FailedImageRestoresQuota ==
  [][(ev'.op \in {"image-failed", "image-crashed"} /\ tasks # <<>>)
        => quotaUsage' = tasks[1].usage0]_vars

----------------------------------------------------------------------------
(* Every trigger that can start a generation call, with pause and resume *)

InitTriggers ==
  /\ InitCommon
  /\ quotaUsage = 0
  /\ SETTINGS = InitSettings(1, IdleThreshold)

NextTriggers ==
  \/ \E u \in Users : PauseCommand(u)
  \/ \E u \in Users : ResumeCommand(u)
  \/ \E u \in Users : Mention(u)
  \/ \E i \in 1..MaxTasks, o \in GatewayOutcomes : ResolveMention(i, o)
  \/ \E u \in Users : HugCommand(u, FALSE)
  \/ \E i \in 1..MaxTasks, o \in GatewayOutcomes : ResolveHug(i, o)
  \/ \E u \in Users, t \in SubTypes : SubEvent(u, t)
  \/ \E i \in 1..MaxTasks, o \in GatewayOutcomes : ResolveSubscriptionEvent(i, o)
  \/ \E u \in Users, m \in BOOLEAN : CheerMessage(u, m)
  \/ \E i \in 1..MaxTasks, o \in GatewayOutcomes : ResolveCheer(i, o)
  \/ \E u \in Users : RaidEvent(u)
  \/ \E i \in 1..MaxTasks, o \in GatewayOutcomes : ResolveRaid(i, o)

SpecTriggers == InitTriggers /\ [][NextTriggers]_vars

\* a privileged !aistart is taken and leaves the bot running
ResumeSucceeds == \E m \in Moderators : ResumeCommand(m) /\ ~botPaused'

\* C37: paused is false at start-up; it changes only in a step of a privileged !aistop
\* (to true) or a privileged !aistart (to false); a privileged !aistart is processed
\* while paused and ends the pause, so from every paused state of the running
\* process the bot can be resumed
PauseOnlyByCommand ==
  /\ ~botPaused
  /\ [][/\ botPaused' # botPaused =>
             /\ HasElevatedPrivileges(ev'.user)
             /\ \/ ev'.op = "pause" /\ botPaused'
                \/ ev'.op = "resume" /\ ~botPaused'
        /\ (ev'.op \in {"pause", "resume"} /\ HasElevatedPrivileges(ev'.user)) =>
             botPaused' = (ev'.op = "pause")
        /\ (ev'.op \in {"pause-denied", "resume-denied"}) =>
             ~HasElevatedPrivileges(ev'.user)]_vars
  /\ [](botPaused /\ ~uncaught /\ ~exited => ENABLED ResumeSucceeds)

\* a moderator paused the bot while a handler was waiting at its await, and a
\* privileged !aistart can be taken from there
PausedAndResumable ==
  /\ ev.op = "pause"
  /\ botPaused
  /\ tasks # <<>>
  /\ ENABLED ResumeSucceeds

\* C4: no step taken while the bot is paused starts a generation-gateway call
NoGenerationWhilePaused == [][botPaused => ev'.gen = 0]_vars

ReplyOps == {"mention-reply", "sub-reply", "gift-reply", "giftgroup-reply",
             "cheer-reply", "raid-reply", "idle-reply"}

\* C10: when the generation call behind a chat-visible reply fails, a message is
\* still sent in its place
FallbackOnGatewayFailure ==
  [][(ev'.op \in ReplyOps /\ ev'.outcome = "fail") => ev'.said >= 1]_vars

\* C15: every step that sends a message to chat leaves that message as the newest,
\* bot-authored line of the history
EveryPostRecorded ==
  [][ev'.said >= 1 =>
        /\ messageHistory' # <<>>
        /\ Last(messageHistory') = BotLine(ev'.text)]_vars

----------------------------------------------------------------------------
(* Mentions in flight while the bot is paused and resumed *)

NextInFlight ==
  \/ \E u \in Users : Mention(u)
  \/ \E i \in 1..MaxTasks, o \in GatewayOutcomes : ResolveMention(i, o)
  \/ \E u \in Users : PauseCommand(u)
  \/ \E u \in Users : ResumeCommand(u)

SpecInFlight == InitTriggers /\ [][NextInFlight]_vars

\* C14: a mention's gateway call that resolves while the bot is paused still ends with
\* the reply sent, recorded as the newest history line and counted for the sender; the
\* bot stays paused
InFlightReplySurvivesPause ==
  [][(ev'.op = "mention-reply" /\ botPaused) =>
        /\ ev'.said = 1
        /\ ev'.text \in {"reply", "fallback"}
        /\ messageHistory' # <<>>
        /\ Last(messageHistory') = BotLine(ev'.text)
        /\ userResponseCounts'[ev'.user] = userResponseCounts[ev'.user] + 1
        /\ botPaused']_vars

\* a reply has been sent while the bot was paused
RepliedWhilePaused ==
  /\ ev.op = "mention-reply"
  /\ ev.said = 1
  /\ botPaused
  /\ messageHistory # <<>>
  /\ Last(messageHistory) = BotLine(ev.text)

----------------------------------------------------------------------------
(* The admin commands of the router, from senders with and without privilege *)

\* the numeric arguments tried: not a number, below the minimum, the minimum
AdminArgs == {RawArg(n, FALSE) : n \in {ArgNull, MinArg - 1, MinArg}}

InitAdmin ==
  /\ messageHistory = <<>>
  /\ botPaused = FALSE
  /\ \E c \in {0, ResponseCap} : userResponseCounts = [u \in Users |-> c]
  /\ now = 0
  /\ lastBotMentionTime = 0
  /\ subgiftBuffer = <<>>
  /\ tasks = <<>>
  /\ uncaught = FALSE
  /\ giftsAccepted = 0
  /\ giftsAcked = 0
  /\ lastIdleStart = <<>>
  /\ currentMessageIndex = 0
  /\ lastFireIndex = <<>>
  /\ lastScheduledMessageTime = <<>>
  /\ lastScheduledPost = <<>>
  /\ waifus = <<>>
  /\ systemPrompt = UpdateSystemPrompt(<<>>)
  /\ imagesCompleted = 0
  /\ intervals = StartedIntervals
  /\ exited = FALSE
  /\ ev = NoEv
  /\ quotaUsage = 1
  /\ SETTINGS = InitSettings(1, IdleThreshold)

NextAdmin ==
  \/ \E u \in Users : PauseCommand(u)
  \/ \E u \in Users : ResumeCommand(u)
  \/ \E u \in Users, arg \in AdminArgs, n \in BOOLEAN : TimerCommand(u, arg, n)
  \/ \E i \in 1..MaxTasks, sv \in SaveOutcomes : ResolveTimerSave(i, sv)
  \/ \E u \in Users, arg \in AdminArgs, sv \in SaveOutcomes, n \in BOOLEAN :
       ContextCommandStep(u, arg, sv, n)
  \/ \E u \in Users, a, n \in BOOLEAN : SysPromptCommand(u, a, n)
  \/ \E u \in Users : ResetPromptCommand(u)
  \/ \E u \in Users : HelpCommand(u)
  \/ \E u \in Users \cup {Owner}, sv \in SaveOutcomes : QuotaResetCommand(u, sv)
  \/ \E u \in Users, w, n \in BOOLEAN : ShoutoutCommand(u, w, n)
  \/ \E i \in 1..MaxTasks, o \in GatewayOutcomes \cup {"ok", "unsuccessful"} :
       ResolveShoutout(i, o)

SpecAdmin == InitAdmin /\ [][NextAdmin]_vars

\* what the arrival of an admin-only command can end as
DeniedOps == {"pause-denied", "resume-denied", "timer-denied", "context-denied",
              "sysprompt-denied", "resetprompt-denied", "help-denied", "so-denied",
              "quotareset-denied"}
DeniedNamedOps == {"timer-denied-named", "context-denied-named", "sysprompt-denied-named",
                   "so-denied-named"}
GrantedOps == {"pause", "resume", "timer-invalid", "timer-set", "context-invalid",
               "context-set", "sysprompt-invalid", "sysprompt-set", "resetprompt-set",
               "help-sent", "so-invalid", "so-start", "quotareset-done"}
QuotaResetOps == {"quotareset-denied", "quotareset-done"}

\* C16: an admin-only command from a sender without privilege (for !airesetquota: from
\* anyone but the owner) sends nothing, leaves paused, the settings, quotaUsage and the
\* system prompt as they were, and is declined, so that the mention dispatch runs: a
\* generation call is started exactly when the message names the bot, the bot is not
\* paused and the sender is under the response cap
UnprivilegedAdminCommandDeclined ==
  [][(/\ ev'.op \in DeniedOps \cup DeniedNamedOps \cup GrantedOps
      /\ \/ ev'.user \notin Moderators \cup {Owner}
         \/ ev'.op \in QuotaResetOps /\ ev'.user # Owner) =>
        /\ ev'.op \in DeniedOps \cup DeniedNamedOps
        /\ ev'.said = 0
        /\ UNCHANGED <<botPaused, SETTINGS, quotaUsage, systemPrompt>>
        /\ IF /\ ev'.op \in DeniedNamedOps
              /\ ~botPaused
              /\ userResponseCounts[ev'.user] < 5
           THEN /\ ev'.gen = 1
                /\ Len(tasks') = Len(tasks) + 1
                /\ Last(tasks').kind = "mention"
                /\ Last(tasks').user = ev'.user
           ELSE ev'.gen = 0 /\ tasks' = tasks]_vars

\* a declined !aisysprompt that names the bot has gone on to the mention dispatch
DeclinedCommandReachedMention ==
  /\ ev.op = "sysprompt-denied-named"
  /\ ev.user = "alice"
  /\ ev.gen = 1
  /\ tasks # <<>>
  /\ Last(tasks).kind = "mention"
  /\ systemPrompt[2].text = "custom"

----------------------------------------------------------------------------
(* Feature-flagged commands (!hug, !so, the waifu commands, the image command), *)
(* with the hug, shoutout and waifu flags as settings.json can hold them and   *)
(* image generation off                                                        *)

InitFlags ==
  /\ InitCommon
  /\ quotaUsage = 0
  /\ \E h, so, w \in BOOLEAN :
       SETTINGS = [InitSettings(1, IdleThreshold) EXCEPT !.enableHugCommand = h,
                                                         !.enableShoutoutCommand = so,
                                                         !.enableWaifuCommand = w,
                                                         !.enableImageGeneration = FALSE]

NextFlags ==
  \/ \E u \in Users, n \in BOOLEAN : HugCommand(u, n)
  \/ \E i \in 1..MaxTasks, o \in GatewayOutcomes : ResolveHug(i, o)
  \/ \E u \in Users, wf, n \in BOOLEAN : ShoutoutCommand(u, wf, n)
  \/ \E i \in 1..MaxTasks, o \in GatewayOutcomes \cup {"ok", "unsuccessful"} : ResolveShoutout(i, o)
  \/ \E u \in Users, k \in WaifuKinds, s \in SaveOutcomes : WaifuCommand(u, k, s)
  \/ \E u \in Users, p \in BOOLEAN, s \in SaveOutcomes : ImageCommand(u, p, s)
  \/ \E i \in 1..MaxTasks, o \in GatewayOutcomes : ResolveMention(i, o)

SpecFlags == InitFlags /\ [][NextFlags]_vars

DisabledOps == {"hug-disabled", "so-disabled", "waifu-disabled", "image-disabled"}

DisabledNamedOps == {"hug-disabled-named", "so-disabled-named", "image-disabled-named"}

\* C17: a message that matches a feature-flagged command (!hug, !so, !waifu,
\* !unwaifu, !waifulist, the image command) whose flag is off is consumed by the
\* command handler: nothing is posted and the mention dispatch does not run, so no
\* generation call starts and no continuation is left pending
DisabledCommandConsumed ==
  [][ev'.op \in DisabledOps \cup DisabledNamedOps
       => ev'.said = 0 /\ ev'.gen = 0 /\ tasks' = tasks
          /\ lastBotMentionTime' = lastBotMentionTime]_vars

----------------------------------------------------------------------------
(* The gift buffer under gift events, drain ticks, pause and resume *)

InitGift ==
  /\ InitCommon
  /\ quotaUsage = 0
  /\ SETTINGS = InitSettings(1, IdleThreshold)

NextGift ==
  \/ \E u \in Users, a, c \in BOOLEAN : HandleSubgift(u, a, c)
  \/ ProcessSubgiftBuffer
  \/ \E i \in 1..MaxTasks, o \in GatewayOutcomes : ResolveSubscriptionEvent(i, o)
  \/ \E i \in 1..MaxTasks, o \in GatewayOutcomes : ResolveGroupedSubgift(i, o)
  \/ \E u \in Users : PauseCommand(u)
  \/ \E u \in Users : ResumeCommand(u)

SpecGift == InitGift /\ [][NextGift]_vars

RECURSIVE SumCovers(_)
SumCovers(ts) == IF ts = <<>> THEN 0 ELSE Head(ts).covers + SumCovers(Tail(ts))

\* C5: every gift accepted into the buffer is still buffered, or is covered by an
\* acknowledgment being generated, or has been acknowledged in chat
NoGiftLost == giftsAccepted = Len(subgiftBuffer) + SumCovers(tasks) + giftsAcked

\* C24: a gift event flagged anonymous, or carrying a community-gift correlation id,
\* leaves the gift buffer as it was and starts no acknowledgment; the gifts buffered,
\* being acknowledged and acknowledged never outnumber the gifts that passed the filter
FilteredGiftNeverBuffered ==
  [][/\ (ev'.op \in {"gift-skipped", "gift-buffered"} /\ (ev'.anonymous \/ ev'.community))
          => /\ ev'.op = "gift-skipped"
             /\ subgiftBuffer' = subgiftBuffer
             /\ tasks' = tasks /\ ev'.said = 0 /\ ev'.gen = 0
             /\ giftsAccepted' = giftsAccepted /\ giftsAcked' = giftsAcked
     /\ Len(subgiftBuffer') + SumCovers(tasks') + giftsAcked' <= giftsAccepted']_vars

\* a community gift event was dropped by the running bot while other gifts waited
CommunityGiftSkipped ==
  /\ ev.op = "gift-skipped"
  /\ ev.community /\ ~ev.anonymous
  /\ ~botPaused
  /\ subgiftBuffer # <<>>

\* C11: a drain tick of the running bot with n buffered gifts starts nothing for n = 0,
\* n individual acknowledgments (one generation call each, for the buffered gifters in
\* order) for n in {1,2}, and for n >= 3 one grouped acknowledgment that names every
\* distinct gifter once and the total n; the buffer is empty afterwards and every
\* started acknowledgment ends with exactly one chat message
DrainAcknowledgesByCount ==
  [][/\ (ev'.op = "drain" /\ ~botPaused) =>
          LET n == Len(subgiftBuffer)
              new == SubSeq(tasks', Len(tasks) + 1, Len(tasks'))
          IN  /\ subgiftBuffer' = <<>>
              /\ SubSeq(tasks', 1, Len(tasks)) = tasks
              /\ ev'.said = 0
              /\ n = 0 => new = <<>> /\ ev'.gen = 0
              /\ n \in 1..2 =>
                    /\ Len(new) = n
                    /\ ev'.gen = n
                    /\ \A k \in 1..n : /\ new[k].kind = "gift"
                                       /\ new[k].user = subgiftBuffer[k]
                                       /\ new[k].covers = 1
              /\ n >= 3 =>
                    /\ Len(new) = 1
                    /\ ev'.gen = 1
                    /\ new[1].kind = "giftgroup"
                    /\ new[1].covers = n
                    /\ new[1].names = {subgiftBuffer[k] : k \in 1..n}
     /\ ev'.op = "gift-reply" =>
          ev'.said = 1 /\ giftsAcked' = giftsAcked + 1 /\ Len(tasks') = Len(tasks) - 1
     /\ ev'.op = "giftgroup-reply" =>
          ev'.said = 1 /\ giftsAcked' >= giftsAcked + 3 /\ Len(tasks') = Len(tasks) - 1]_vars

\* a drain tick has grouped three gifts of two distinct gifters
DrainGroupedThree ==
  /\ ev.op = "drain"
  /\ tasks # <<>>
  /\ Last(tasks).kind = "giftgroup"
  /\ Last(tasks).covers = 3
  /\ Cardinality(Last(tasks).names) = 2

----------------------------------------------------------------------------
(* The idle emitter under ticks, gateway delays and chat lines *)

InitIdle ==
  /\ InitCommon
  /\ quotaUsage = 0
  /\ \E cap \in 1..MaxCap : SETTINGS = InitSettings(cap, IdleThreshold)

NextIdle ==
  \/ IdleTick
  \/ \E i \in 1..MaxTasks, o \in GatewayOutcomes : ResolveIdle(i, o)
  \/ \E u \in Users : PlainMessage(u)

SpecIdle == InitIdle /\ [][NextIdle]_vars

\* C6: two idle-emitter gateway calls are never started less than
\* inactivityThreshold apart
IdleOncePerWindow ==
  [][(ev'.op = "idle-start" /\ lastIdleStart # <<>>)
        => now' - lastIdleStart[1] >= SETTINGS.inactivityThreshold]_vars

----------------------------------------------------------------------------
(* The rotation over a list that stays fixed, each fire ending before the next *)
(* tick finds the timer elapsed                                               *)

InitRotation ==
  /\ InitCommon
  /\ quotaUsage = 0
  /\ \E L \in 1..Len(ScheduledMessages) :
       SETTINGS = [InitSettings(1, IdleThreshold) EXCEPT
                     !.scheduledMessages = SubSeq(ScheduledMessages, 1, L)]

\* a tick of the interval while no fire is waiting for the gateway
ScheduleTickAlone ==
  /\ \A k \in 1..Len(tasks) : tasks[k].kind # "schedule"
  /\ ScheduleTick

NextRotation ==
  \/ ScheduleTickAlone
  \/ \E i \in 1..MaxTasks, o \in GatewayOutcomes : ResolveSchedule(i, o)
  \/ \E u \in Users : PlainMessage(u)

SpecRotation == InitRotation /\ [][NextRotation]_vars

\* the cursor the i-th fire starts from, counting from the constructor's 0
RECURSIVE CursorAtFire(_)
CursorAtFire(i) == IF i = 1 THEN 0 ELSE AdvanceToNextMessage(CursorAtFire(i - 1))

\* C26: with a list of fixed length L >= 1 and fires that do not overlap, starting at
\* cursor 0, the i-th fire uses the entry at index (i-1) mod L (0, 1, 0 for L = 2):
\* each fire uses the entry under the cursor and leaves the cursor one step further,
\* wrapping at L, however the fire ends
RotationInOrder ==
  [][LET L == Len(SETTINGS.scheduledMessages)
     IN  /\ \A i \in 1..(MaxTime + 1) : CursorAtFire(i) = (i - 1) % L
         /\ ev'.op = "schedule-static" =>
              /\ SETTINGS.scheduledMessages[currentMessageIndex + 1] = "static"
              /\ currentMessageIndex' = (currentMessageIndex + 1) % L
         /\ ev'.op = "schedule-start" =>
              /\ Last(tasks').index = currentMessageIndex
              /\ currentMessageIndex' = currentMessageIndex
         /\ ev'.op = "schedule-reply" =>
              \E k \in 1..Len(tasks) :
                /\ tasks[k].kind = "schedule"
                /\ tasks[k].index = currentMessageIndex
                /\ currentMessageIndex' = (currentMessageIndex + 1) % L]_vars

\* with two entries, the first entry was used again after the cursor had wrapped
WrappedToFirstEntry ==
  /\ Len(SETTINGS.scheduledMessages) = 2
  /\ ev.op = "schedule-static"
  /\ currentMessageIndex = 1
  /\ now > 1

----------------------------------------------------------------------------
(* Ticks and fires over a list that entries are deleted from, starting from *)
(* lists of one to three entries                                            *)

NextShorten ==
  \/ ScheduleTick
  \/ \E i \in 1..MaxTasks, o \in GatewayOutcomes : ResolveSchedule(i, o)
  \/ \E d \in 0..Len(ScheduledMessages), s \in SaveOutcomes : WebDeleteScheduledMessage(d, s)

SpecShorten == InitRotation /\ [][NextShorten]_vars

\* C35: a fire that finds the cursor at or past the length of the (shortened) list
\* posts nothing, starts nothing, raises no uncaught exception and leaves the cursor
\* within 0..length-1; a fire that posts or starts a generation reads an entry
\* that exists
ShortenedListHandled ==
  [][ev'.op \in FireOps =>
       LET L == Len(SETTINGS.scheduledMessages)
       IN  /\ currentMessageIndex >= L =>
                /\ ev'.op = "schedule-undefined"
                /\ ev'.said = 0 /\ ev'.gen = 0
                /\ messageHistory' = messageHistory /\ tasks' = tasks
                /\ ~uncaught'
                /\ currentMessageIndex' >= 0 /\ currentMessageIndex' < L
           /\ ev'.op \in {"schedule-static", "schedule-start"} =>
                currentMessageIndex < L]_vars

\* the fire after two deletions found the cursor past the one entry left and put it
\* back on that entry
CursorBackInRange ==
  /\ ev.op = "schedule-undefined"
  /\ Len(SETTINGS.scheduledMessages) = 1
  /\ lastFireIndex = <<2>>
  /\ currentMessageIndex = 0

----------------------------------------------------------------------------
(* Commands the router consumes, in messages that name the bot or not, with *)
(* the clock running                                                         *)

NextRouted ==
  \/ \E u \in Users, n \in BOOLEAN : HugCommand(u, n)
  \/ \E i \in 1..MaxTasks, o \in GatewayOutcomes : ResolveHug(i, o)
  \/ \E u \in Users, a, n \in BOOLEAN : SysPromptCommand(u, a, n)
  \/ \E u \in Users, w, n \in BOOLEAN : ShoutoutCommand(u, w, n)
  \/ IdleTick
  \/ \E i \in 1..MaxTasks, o \in GatewayOutcomes : ResolveIdle(i, o)

SpecRouted == InitLedgerGate /\ [][NextRouted]_vars

\* the steps in which handleCommand returned true for the message (at once, or at
\* the handler's first await)
HandledOps ==
  {"hug-start", "sysprompt-invalid", "sysprompt-set", "so-invalid", "so-start"}

\* the mention tasks among the suspended handlers
MentionTasks(ts) == SelectSeq(ts, LAMBDA t : t.kind = "mention")

\* C38: a message the command router consumed does not go on to the mention path,
\* whether it names the bot or not: no mention call is started for it, the sender's
\* ledger count stays as it was and lastBotMentionTime is not stamped
HandledCommandSkipsMention ==
  [][ev'.op \in HandledOps
        => /\ MentionTasks(tasks') = MentionTasks(tasks)
           /\ userResponseCounts' = userResponseCounts
           /\ lastBotMentionTime' = lastBotMentionTime]_vars

\* "!hug @<bot>" was consumed by the hug handler at a time when a mention would have
\* stamped lastBotMentionTime
NamedHugConsumed ==
  /\ ev.op = "hug-start"
  /\ "named" \in DOMAIN ev
  /\ ~botPaused
  /\ CanRespondToUser(userResponseCounts, ev.user)
  /\ lastBotMentionTime < now

----------------------------------------------------------------------------
(* Mentions whose gateway call ends sooner or later, with other mentions, ticks of *)
(* the 1-second timer, ledger resets, !aistop and !aistart in between              *)

\* the gateway call of a waiting mention of user u resolves or fails
ResolveMentionOf(u) ==
  \E i \in 1..MaxTasks, o \in GatewayOutcomes :
    /\ i <= Len(tasks) /\ tasks[i].user = u
    /\ ResolveMention(i, o)

NextAnswered ==
  \/ \E u \in Users : Mention(u)
  \/ \E i \in 1..MaxTasks, o \in GatewayOutcomes : ResolveMention(i, o)
  \/ ProcessSubgiftBuffer
  \/ ResetUserResponseCounts
  \/ \E u \in Moderators : PauseCommand(u)
  \/ \E u \in Moderators : ResumeCommand(u)

\* every getChatResponse call that was started returns or throws in the end
SpecAnswered ==
  /\ InitLedgerGate
  /\ [][NextAnswered]_vars
  /\ \A u \in Users : WF_vars(ResolveMentionOf(u))

\* a mention of user u is waiting for its gateway call
MentionPending(u) ==
  \E i \in 1..Len(tasks) : tasks[i].kind = "mention" /\ tasks[i].user = u

\* C39: a mention is accepted only while the bot runs and the sender is under the
\* cap; it stays waiting until the step that ends its gateway call, and that step
\* posts one reply to the sender, records it and adds one to the sender's count; no
\* other step takes a waiting mention away, posts a mention reply or raises a count;
\* and every waiting mention is answered in the end, whatever other mentions, ticks,
\* resets, pauses and resumes come in between
AcceptedMentionAnsweredOnce ==
  /\ [][/\ ev'.op = "mention-start" =>
             /\ ~botPaused /\ CanRespondToUser(userResponseCounts, ev'.user)
             /\ MentionTasks(tasks') =
                  Append(MentionTasks(tasks),
                         [Task("mention", "gateway", ev'.user) EXCEPT
                            !.final = IsLimitResponse(userResponseCounts, ev'.user)])
        /\ ev'.op = "mention-reply" =>
             /\ ev'.said = 1
             /\ Last(messageHistory') = BotLine(ev'.text)
             /\ \E i \in 1..Len(tasks) :
                  /\ tasks[i].kind = "mention" /\ tasks[i].user = ev'.user
                  /\ tasks' = RemoveAt(tasks, i)
             /\ userResponseCounts' =
                  [userResponseCounts EXCEPT ![ev'.user] = userResponseCounts[ev'.user] + 1]
        /\ ev'.op \notin {"mention-start", "mention-reply"} =>
             /\ MentionTasks(tasks') = MentionTasks(tasks)
             /\ \/ userResponseCounts' = userResponseCounts
                \/ ev'.op = "ledger-reset"]_vars
  /\ \A u \in Users :
       MentionPending(u) ~> (ev.op = "mention-reply" /\ ev.user = u /\ ev.said = 1)

\* a mention accepted before !aistop was answered while the bot was paused, as the
\* sender's first reply of the window
AnsweredDuringPause ==
  /\ ev.op = "mention-reply"
  /\ ev.said = 1
  /\ botPaused
  /\ userResponseCounts[ev.user] = 1
  /\ MentionPending(ev.user)

----------------------------------------------------------------------------
(* Shutdown: process.on('SIGINT').  memoryService.stopMemoryServer() is not async, *)
(* so nothing runs between the await and the two cleanup() calls                   *)

Sigint ==
  /\ ~uncaught /\ ~exited
  /\ intervals' = (intervals \ {"subgift"}) \ {"scheduled"}
  /\ exited' = TRUE
  /\ ev' = Ev("sigint", NoUser, 0, 0, "-", "-")
  /\ UNCHANGED <<messageHistory, SETTINGS, botPaused, quotaUsage, userResponseCounts,
                 lastBotMentionTime, now, subgiftBuffer, tasks, uncaught, giftsAccepted,
                 giftsAcked, lastIdleStart, scheduleVars, promptVars, imagesCompleted>>

NextShutdown ==
  \/ Sigint
  \/ \E u \in Users : PlainMessage(u)
  \/ \E u \in Users, a, c \in BOOLEAN : HandleSubgift(u, a, c)
  \/ ProcessSubgiftBuffer
  \/ \E i \in 1..MaxTasks, o \in GatewayOutcomes : ResolveSubscriptionEvent(i, o)
  \/ \E i \in 1..MaxTasks, o \in GatewayOutcomes : ResolveGroupedSubgift(i, o)
  \/ ScheduleTick
  \/ \E i \in 1..MaxTasks, o \in GatewayOutcomes : ResolveSchedule(i, o)
  \/ \E s \in SaveOutcomes : ResetQuota(s)
  \/ ResetUserResponseCounts

SpecShutdown == InitTriggers /\ [][NextShutdown]_vars

\* C28: when the SIGINT handler has run and the process exits, every interval timer
\* the bot started has been cleared
TimersClearedAtExit == exited => intervals = {}

----------------------------------------------------------------------------
(* The waifu list and the system prompt: the waifu commands, !aisysprompt,   *)
(* !airesetprompt and the settings page, from every list settings.json can   *)
(* hold after the bot wrote it                                                *)

\* the lists addWaifu and removeWaifu can have left in settings.json
SavedWaifuLists == {<<>>, <<"alice">>, <<"bob">>, <<"alice", "bob">>, <<"bob", "alice">>}

InitWaifus ==
  /\ messageHistory = <<>>
  /\ botPaused = FALSE
  /\ userResponseCounts = [u \in Users |-> 0]
  /\ now = 0
  /\ lastBotMentionTime = 0
  /\ subgiftBuffer = <<>>
  /\ tasks = <<>>
  /\ uncaught = FALSE
  /\ giftsAccepted = 0
  /\ giftsAcked = 0
  /\ lastIdleStart = <<>>
  /\ currentMessageIndex = 0
  /\ lastFireIndex = <<>>
  /\ lastScheduledMessageTime = <<>>
  /\ lastScheduledPost = <<>>
  /\ quotaUsage = 0
  /\ imagesCompleted = 0
  /\ intervals = StartedIntervals
  /\ exited = FALSE
  /\ ev = NoEv
  /\ \E w \in BOOLEAN, list \in SavedWaifuLists :
       /\ SETTINGS = [InitSettings(1, IdleThreshold) EXCEPT !.enableWaifuCommand = w,
                                                            !.waifus = list]
       /\ waifus = list
       /\ systemPrompt = UpdateSystemPrompt(list)

NextWaifus ==
  \/ \E u \in Users, k \in WaifuKinds, s \in SaveOutcomes : WaifuCommand(u, k, s)
  \/ \E u \in Users, a \in BOOLEAN : SysPromptCommand(u, a, FALSE)
  \/ \E u \in Users : ResetPromptCommand(u)
  \/ \E u \in Users : PlainMessage(u)
  \/ \E n \in 1..MaxCap, s \in SaveOutcomes : WebPostSettings(n, s)

SpecWaifus == InitWaifus /\ [][NextWaifus]_vars

\* C29: whatever waifu commands and prompt commands have run, the system prompt is the
\* core prompt, then one additional-instructions part, then the waifu sentence exactly
\* once when the list is non-empty and not at all when it is empty, and the sentence
\* lists exactly the current waifus
PromptComposedOnce ==
  /\ Len(systemPrompt) = (IF Len(waifus) > 0 THEN 3 ELSE 2)
  /\ systemPrompt[1] = CorePrompt
  /\ systemPrompt[2] \in {AdditionalInstructions("default"), AdditionalInstructions("custom")}
  /\ Len(waifus) > 0 => systemPrompt[3] = WaifuClause(waifus)

\* a waifu joined after !aisysprompt had set a custom prompt with one waifu listed
WaifuAddedAfterCustomPrompt ==
  /\ ev.op = "waifu-add"
  /\ Len(waifus) = 2
  /\ systemPrompt = UpdateSystemPrompt(waifus)

\* a custom prompt was set while two waifus were listed
CustomPromptListsWaifus ==
  /\ ev.op = "sysprompt-set"
  /\ Len(waifus) = 2
  /\ systemPrompt = <<CorePrompt, AdditionalInstructions("custom"), WaifuClause(waifus)>>

\* C36: the additional-instructions part of the system prompt changes only in a step
\* of a privileged !aisysprompt or !airesetprompt; a !waifu or !unwaifu changes
\* nothing but the waifu sentence, so a custom prompt stays in place
CustomPromptKept ==
  [][/\ systemPrompt'[2] # systemPrompt[2] =>
          /\ ev'.op \in {"sysprompt-set", "resetprompt-set"}
          /\ HasElevatedPrivileges(ev'.user)
     /\ ev'.op \in {"waifu-add", "waifu-remove"} =>
          /\ systemPrompt'[1] = systemPrompt[1]
          /\ systemPrompt'[2] = systemPrompt[2]]_vars

WaifuChangeOps == {"waifu-add", "waifu-remove"}
WaifuSameOps == {"waifu-add-same", "waifu-remove-same", "waifu-list-same"}
NoNameTwice(list) == \A i, j \in 1..Len(list) : list[i] = list[j] => i = j

----------------------------------------------------------------------------
(* The idle emitter with !aiauto, !aistop and !aistart in between *)

NextAuto ==
  \/ \E u \in Users : AutoCommand(u)
  \/ \E i \in 1..MaxTasks, s \in SaveOutcomes : ResolveAutoSave(i, s)
  \/ \E u \in Users : PauseCommand(u)
  \/ \E u \in Users : ResumeCommand(u)
  \/ \E u \in Users : PlainMessage(u)
  \/ IdleTick
  \/ \E i \in 1..MaxTasks, o \in GatewayOutcomes : ResolveIdle(i, o)

SpecAuto == InitTriggers /\ [][NextAuto]_vars

\* C25: the idle emitter starts a generation call only from a state where the bot is
\* not paused, auto-messages are enabled, now - lastBotMentionTime >=
\* inactivityThreshold, the history is non-empty and its newest line is not the bot's
IdleStartsOnlyWhenDue ==
  [][ev'.op = "idle-start" =>
       /\ ev'.gen = 1
       /\ ~botPaused
       /\ SETTINGS.enableAutoMessages
       /\ now' - lastBotMentionTime >= SETTINGS.inactivityThreshold
       /\ Len(messageHistory) > 0
       /\ ~IsBotLine(Last(messageHistory))]_vars

\* an idle call was started in a window that began at a later stamp of
\* lastBotMentionTime than the initial one
IdleStartedAgain ==
  /\ ev.op = "idle-start"
  /\ \E k \in 1..Len(tasks) : tasks[k].kind = "idle"
  /\ lastBotMentionTime > 0

AutoOps == {"auto-denied", "auto-set"}

----------------------------------------------------------------------------
(* Appends under a capacity that stays fixed: chat lines, !aihelp and its answer, *)
(* !aistop / !aistart and their notices                                          *)

NextAppend ==
  \/ \E u \in Users : PlainMessage(u)
  \/ \E u \in Users : HelpCommand(u)
  \/ \E u \in Users : PauseCommand(u)
  \/ \E u \in Users : ResumeCommand(u)

SpecAppend == InitHistory /\ [][NextAppend]_vars

\* the last n elements of s, in their order
LastLines(s, n) == IF Len(s) <= n THEN s ELSE SubSeq(s, Len(s) - n + 1, Len(s))

\* addMessage called for each element of lines in turn
RECURSIVE AppendAll(_, _, _)
AppendAll(hist, lines, maxLength) ==
  IF lines = <<>> THEN hist
  ELSE AppendAll(AddMessage(hist, Head(lines), maxLength), Tail(lines), maxLength)

\* the lines a handler appended in the step just taken
AppendedLines(e) ==
  CASE e.op = "plain" -> <<Line(e.user, "msg")>>
    [] e.op = "help-sent" -> <<Line(e.user, "msg"), BotLine("help")>>
    [] e.op \in {"pause", "resume"} -> <<Line(e.user, "msg"), BotLine("notice")>>
    [] OTHER -> <<Line(e.user, "msg")>>

\* C22: with a fixed capacity c, appending k > c lines to an empty history leaves the
\* last c of them in their original order, and each append to a full history evicts
\* the oldest line: after every step the history is the last c lines of what it held
\* followed by what the step appended
SnapshotIsNewestLines ==
  [][LET c == SETTINGS.maxHistoryLength
         fed == messageHistory \o messageHistory' \o AppendedLines(ev')
     IN  /\ messageHistory' = LastLines(messageHistory \o AppendedLines(ev'), c)
         /\ AppendAll(<<>>, fed, c) = LastLines(fed, c)]_vars

\* a full history of capacity 2 or more whose lines differ, just after an append
FullHistoryAfterAppend ==
  /\ SETTINGS.maxHistoryLength >= 2
  /\ Len(messageHistory) = SETTINGS.maxHistoryLength
  /\ messageHistory[1] # Last(messageHistory)
  /\ ev.op = "plain"

\* C23: a valid privileged !aicontext n (1 <= n <= 50) sets the capacity to n and
\* at once evicts from the head until at most n lines remain, the newest ones in
\* their order; with the confirmation line appended the history still holds at most
\* n lines
ContextCommandTrims ==
  [][ev'.op = "context-set" =>
       LET n == ParseNumber(ev'.arg)
           h0 == AddMessage(messageHistory, Line(ev'.user, "msg"), SETTINGS.maxHistoryLength)
           kept == LastLines(h0, n)
       IN  /\ n \in MinArg..ContextMax
           /\ SETTINGS'.maxHistoryLength = n
           /\ messageHistory' = LastLines(Append(kept, BotLine("notice")), n)
           /\ Len(messageHistory') <= n]_vars

\* !aicontext 1 has left the confirmation as the only line
ShrunkToConfirmation ==
  /\ ev.op = "context-set"
  /\ SETTINGS.maxHistoryLength = 1
  /\ messageHistory = <<BotLine("notice")>>

----------------------------------------------------------------------------
(* Mentions under the response ledger while the clock runs *)

NextDrop ==
  \/ \E u \in Users : Mention(u)
  \/ \E i \in 1..MaxTasks, o \in GatewayOutcomes : ResolveMention(i, o)
  \/ IdleTick
  \/ \E i \in 1..MaxTasks, o \in GatewayOutcomes : ResolveIdle(i, o)

SpecDrop == InitLedgerGate /\ [][NextDrop]_vars

MentionOps == {"mention-paused", "mention-dropped", "mention-start"}

\* C21: a mention from a user whose ledger count is 5 or more is dropped silently:
\* nothing is sent to chat, no gateway call starts, the history gains the sender's
\* line and no bot line, and the sender's count and lastBotMentionTime stay as
\* they were
CappedMentionDropped ==
  [][(ev'.op \in MentionOps /\ userResponseCounts[ev'.user] >= ResponseCap)
        => /\ ev'.op \in {"mention-dropped", "mention-paused"}
           /\ ev'.said = 0 /\ ev'.gen = 0 /\ tasks' = tasks
           /\ messageHistory' = AddMessage(messageHistory, Line(ev'.user, "msg"),
                                           SETTINGS.maxHistoryLength)
           /\ userResponseCounts' = userResponseCounts
           /\ lastBotMentionTime' = lastBotMentionTime]_vars

\* a capped user's mention was dropped at a time later than the last mention answered
DroppedLaterMention ==
  /\ ev.op = "mention-dropped"
  /\ userResponseCounts[ev.user] >= ResponseCap
  /\ lastBotMentionTime < now

----------------------------------------------------------------------------
(* Settings commands and their awaited writes *)

InitCommands ==
  /\ InitCommon
  /\ quotaUsage = 0
  /\ \E cap \in 1..MaxCap : SETTINGS = InitSettings(cap, IdleThreshold)

\* the argument texts of CommandArgs, and "abc" and "1.5"
RawArgs == CommandArgs \cup {RawArg(ArgNull, TRUE), RawArg(MinArg, TRUE)}

NextArgs ==
  \/ \E u \in Users : PlainMessage(u)
  \/ \E u \in Users, raw \in RawArgs : TimerCommand(u, raw, FALSE)
  \/ \E i \in 1..MaxTasks, s \in SaveOutcomes : ResolveTimerSave(i, s)
  \/ \E u \in Users, raw \in RawArgs, s \in SaveOutcomes : ContextCommandStep(u, raw, s, FALSE)

SpecArgs == InitCommands /\ [][NextArgs]_vars

\* the argument text is a decimal integer, nothing more
IsIntegerText(raw) == raw.lead # ArgNull /\ ~raw.trailing

ValidTimerArg(raw) == IsIntegerText(raw) /\ raw.lead >= MinArg

ValidContextArg(raw) == IsIntegerText(raw) /\ raw.lead \in MinArg..ContextMax

\* the history after the sender's line and the templated error line are appended
ErrorRecorded(u) ==
  AddMessage(AddMessage(messageHistory, Line(u, "msg"), SETTINGS.maxHistoryLength),
             BotLine("invalid"), SETTINGS.maxHistoryLength)

\* C18: a privileged !aitimer whose argument is not an integer >= 1, and a privileged
\* !aicontext whose argument is not an integer in 1..50, posts the templated error,
\* keeps the settings, takes nothing from the history beyond the two appends and
\* issues no settings write; with a valid argument the new value is stored and a
\* settings write is issued, for !aitimer with the confirmation still to come
NumericArgumentValidated ==
  [][/\ ev'.op \in {"timer-invalid", "timer-set"} =>
          IF ValidTimerArg(ev'.arg)
          THEN /\ ev'.op = "timer-set" /\ ev'.said = 0
               /\ SETTINGS'.inactivityThreshold = ev'.arg.lead * TicksPerMinute
               /\ tasks' = Append(tasks, Task("timer", "save", ev'.user))
          ELSE /\ ev'.op = "timer-invalid" /\ ev'.said = 1 /\ ev'.text = "invalid"
               /\ SETTINGS' = SETTINGS /\ tasks' = tasks /\ uncaught' = uncaught
               /\ messageHistory' = ErrorRecorded(ev'.user)
     /\ ev'.op \in {"context-invalid", "context-set"} =>
          IF ValidContextArg(ev'.arg)
          THEN /\ ev'.op = "context-set" /\ ev'.said = 1
               /\ SETTINGS'.maxHistoryLength = ev'.arg.lead
               /\ ev'.outcome \in SaveOutcomes
          ELSE /\ ev'.op = "context-invalid" /\ ev'.said = 1 /\ ev'.text = "invalid"
               /\ SETTINGS' = SETTINGS /\ tasks' = tasks /\ uncaught' = uncaught
               /\ ev'.outcome = "-"
               /\ messageHistory' = ErrorRecorded(ev'.user)]_vars

NextCommands ==
  \/ \E u \in Users : PlainMessage(u)
  \/ \E u \in Users, arg \in CommandArgs : TimerCommand(u, arg, FALSE)
  \/ \E i \in 1..MaxTasks, s \in SaveOutcomes : ResolveTimerSave(i, s)
  \/ \E u \in Users, arg \in CommandArgs, s \in SaveOutcomes : ContextCommandStep(u, arg, s, FALSE)

SpecCommands == InitCommands /\ [][NextCommands]_vars

\* C9: no handler ends with an exception that nobody catches
NoUncaughtException == ~uncaught

====
